---- MODULE Spec2Model ----
(***************************************************************************)
(* The xmldot playground: the WASM lifecycle manager (WASMManager), the    *)
(* host paths that call into the guest (loadWASM, initializePlayground,    *)
(* loadFromURL, runQuery) and the guest's call surface (executeQuery,      *)
(* validateXML, getVersion), on the browser's single event loop.           *)
(*                                                                         *)
(* The event loop is modelled as it runs: a macrotask (a client call, a    *)
(* step of the module load) runs only when the microtask queue is empty;   *)
(* promise reactions are queued and run first-in first-out.                *)
(***************************************************************************)
EXTENDS Integers, Sequences, FiniteSets, TLC

VARIABLES
    started,        \* the script has reached its last statement (line 1054)
    webAssembly,    \* the browser provides WebAssembly
    goDefined,      \* wasm_exec.js has defined the Go class
    state,          \* WASMManager.state
    initPromise,    \* WASMManager.initPromise: 0 (null) or the number of the _load() call
    wasmInstance,   \* WASMManager.wasmInstance: 0 (null) or the number of the _load() call
    initError,      \* WASMManager.initError
    loads,          \* number of _load() calls made so far
    loadPc,         \* where each _load() call is
    promise,        \* the outcome of the promise each _load() call returned
    reactions,      \* the reactions registered on each of those promises, in order
    microtasks,     \* the microtask queue
    published,      \* the guest functions present on window
    callers,        \* every call path of the host and of the manager's clients
    guestCalls,     \* the guest calls made so far
    resultOutput,   \* the result area
    handlers,       \* the UI handlers have been registered
    status,         \* the status banner: "loading", "success" or "error"
    xmlInput,       \* the text in the document field
    pathInput,      \* the text in the path field
    metrics,        \* the metrics line under the result area
    localStorage,   \* what localStorage holds under 'xmldot-history'
    historyList,    \* the paths shown in the history list
    search,         \* window.location.search
    toasts,         \* the notices shown so far
    browser,        \* whether the browser accepts writes to localStorage and to the URL
    listeners,      \* eventManager.listeners: the tracked handlers, in the order of the Map
    attached,       \* the handlers attached to targets: (node, event, handler)
    queryTimeout,   \* the timer runQueryDebounced set last (0: none yet)
    timers,         \* the timers set by runQueryDebounced; a timer's id is its index
    now,            \* the time in ms
    call,           \* a guest call under test: its arguments and the engine's behaviour
    ret             \* what that guest call gave back

vars == << started, webAssembly, goDefined, state, initPromise, wasmInstance, initError, loads,
           loadPc, promise, reactions, microtasks, published, callers, guestCalls,
           resultOutput, handlers, status, xmlInput, pathInput, metrics, localStorage,
           historyList, search, toasts, browser, listeners, attached, queryTimeout,
           timers, now, call, ret >>

-----------------------------------------------------------------------------
(* Bounds *)

\* the number of client call paths besides loadWASM and the shared-URL query
NCallers == 2

-----------------------------------------------------------------------------
(* Text.  A text is a run of `ws` ASCII whitespace characters around `n`   *)
(* copies of one non-whitespace character that takes `w` bytes in UTF-8    *)
(* (and one UTF-16 unit).                                                  *)

Text(ws, n, w) == [ws |-> ws, n |-> n, w |-> w]

\* JavaScript's String.prototype.length: UTF-16 units
Length(t) == t.ws + t.n

\* Go's len() of the string the guest receives: UTF-8 bytes
ByteLen(t) == t.ws + t.n * t.w

\* String.prototype.trim and strings.TrimSpace
Trim(t) == [t EXCEPT !.ws = 0]

EmptyText == Text(0, 0, 1)

\* a JavaScript value as the guest sees it: its type and, for a string, its text
JSString(t) == [type |-> "string", text |-> t]
JSNumber == [type |-> "number", text |-> EmptyText]

-----------------------------------------------------------------------------
(* The guest: resource limits and the three exported functions *)

MaxXMLSize == 10 * 1024 * 1024
MaxQuerySize == 4096

GuestOps == {"executeQuery", "validateXML", "getVersion"}

\* what the code running under a guest function can do: `panicAt` is the step
\* at which it panics ("none": it does not), `panicValue` the value it panics
\* with, `tag`, `exists` and `index` what xmldot.Get finds, `valid` what
\* xmldot.Valid answers
PanicSteps == {"Type", "String", "Sprintf", "TrimSpace", "Get", "Result", "Valid"}

Returned(v) == [kind |-> "return", val |-> v]
Panicked(v) == [kind |-> "panic", val |-> v]

makeError(message) == [error |-> message]

RecoverMessage == <<"Query execution failed due to resource limits or invalid input">>

\* a table that lets the tag of an unrecognized type through
typeToStringRaw(t) ==
    IF t \in 0 .. 7
    THEN <<"Null", "String", "Number", "True", "False", "Element", "Attribute", "Array">>[t + 1]
    ELSE ToString(t)

typeToString(t) ==
    CASE t = 0 -> "Null"
      [] t = 1 -> "String"
      [] t = 2 -> "Number"
      [] t = 3 -> "True"
      [] t = 4 -> "False"
      [] t = 5 -> "Element"
      [] t = 6 -> "Attribute"
      [] t = 7 -> "Array"
      [] OTHER -> "Unknown"

\* a body that trims the path before it measures it
executeQueryBodyTrimsFirst(args, eng) ==
    IF Len(args) # 2
    THEN Returned(makeError(<<"Expected 2 arguments: xml and path">>))
    ELSE IF eng.panicAt = "Type" THEN Panicked(eng.panicValue)
    ELSE IF args[1].type # "string"
    THEN Returned(makeError(<<"First argument (xml) must be a string">>))
    ELSE IF args[2].type # "string"
    THEN Returned(makeError(<<"Second argument (path) must be a string">>))
    ELSE IF eng.panicAt = "String" THEN Panicked(eng.panicValue)
    ELSE LET xml == args[1].text
             path == Trim(args[2].text)
             xmlLen == ByteLen(xml)
             pathLen == ByteLen(path)
         IN  IF xmlLen > MaxXMLSize
             THEN IF eng.panicAt = "Sprintf" THEN Panicked(eng.panicValue)
                  ELSE Returned(makeError(<<"XML too large (", ToString(xmlLen),
                                            " bytes, max ", ToString(MaxXMLSize), ")">>))
             ELSE IF pathLen > MaxQuerySize
             THEN IF eng.panicAt = "Sprintf" THEN Panicked(eng.panicValue)
                  ELSE Returned(makeError(<<"Query too large (", ToString(pathLen),
                                            " bytes, max ", ToString(MaxQuerySize), ")">>))
             ELSE IF eng.panicAt = "TrimSpace" THEN Panicked(eng.panicValue)
             ELSE IF Length(Trim(path)) = 0
             THEN Returned(makeError(<<"Query path cannot be empty">>))
             ELSE IF eng.panicAt = "Get" THEN Panicked(eng.panicValue)
             ELSE IF eng.panicAt = "Result" THEN Panicked(eng.panicValue)
             ELSE Returned([value |-> <<"value of", Trim(path)>>,
                            raw |-> <<"raw of", Trim(path)>>,
                            exists |-> eng.exists,
                            type |-> typeToString(eng.tag),
                            index |-> eng.index])

\* the body of executeQuery, lines 1139-1185: the value it returns, or the
\* panic that ends it at step eng.panicAt when the body reaches that step
executeQueryBody(args, eng) ==
    IF Len(args) # 2
    THEN Returned(makeError(<<"Expected 2 arguments: xml and path">>))
    ELSE IF eng.panicAt = "Type" THEN Panicked(eng.panicValue)
    ELSE IF args[1].type # "string"
    THEN Returned(makeError(<<"First argument (xml) must be a string">>))
    ELSE IF args[2].type # "string"
    THEN Returned(makeError(<<"Second argument (path) must be a string">>))
    ELSE IF eng.panicAt = "String" THEN Panicked(eng.panicValue)
    ELSE LET xml == args[1].text
             path == args[2].text
             xmlLen == ByteLen(xml)
             pathLen == ByteLen(path)
         IN  IF xmlLen > MaxXMLSize
             THEN IF eng.panicAt = "Sprintf" THEN Panicked(eng.panicValue)
                  ELSE Returned(makeError(<<"XML too large (", ToString(xmlLen),
                                            " bytes, max ", ToString(MaxXMLSize), ")">>))
             ELSE IF pathLen > MaxQuerySize
             THEN IF eng.panicAt = "Sprintf" THEN Panicked(eng.panicValue)
                  ELSE Returned(makeError(<<"Query too large (", ToString(pathLen),
                                            " bytes, max ", ToString(MaxQuerySize), ")">>))
             ELSE IF eng.panicAt = "TrimSpace" THEN Panicked(eng.panicValue)
             ELSE IF Length(Trim(path)) = 0
             THEN Returned(makeError(<<"Query path cannot be empty">>))
             ELSE IF eng.panicAt = "Get" THEN Panicked(eng.panicValue)
             ELSE IF eng.panicAt = "Result" THEN Panicked(eng.panicValue)
             ELSE Returned([value |-> <<"value of", Trim(path)>>,
                            raw |-> <<"raw of", Trim(path)>>,
                            exists |-> eng.exists,
                            type |-> typeToString(eng.tag),
                            index |-> eng.index])

\* a deferred function that puts the recovered value in the message
executeQueryRecoverLeaks(r) ==
    IF r.kind = "panic" THEN Returned(makeError(RecoverMessage \o <<": ", r.val>>)) ELSE r

\* the deferred function of executeQuery, lines 1133-1137
executeQueryRecover(r) ==
    IF r.kind = "panic" THEN Returned(makeError(RecoverMessage)) ELSE r

executeQuery(args, eng) == executeQueryRecover(executeQueryBody(args, eng))

\* the body of validateXML, lines 1203-1221
validateXMLBody(args, eng) ==
    IF Len(args) # 1 THEN Returned(FALSE)
    ELSE IF eng.panicAt = "Type" THEN Panicked(eng.panicValue)
    ELSE IF args[1].type # "string" THEN Returned(FALSE)
    ELSE IF eng.panicAt = "String" THEN Panicked(eng.panicValue)
    ELSE IF ByteLen(args[1].text) > MaxXMLSize THEN Returned(FALSE)
    ELSE IF eng.panicAt = "Valid" THEN Panicked(eng.panicValue)
    ELSE Returned(eng.valid)

\* validateXML without its deferred function
validateXMLNoRecover(r) == r

\* the deferred function of validateXML, lines 1195-1201
validateXMLRecover(r) ==
    IF r.kind = "panic" THEN Returned(FALSE) ELSE r

validateXML(args, eng) == validateXMLRecover(validateXMLBody(args, eng))

getVersion(args) == Returned(<<"0.1.0">>)

-----------------------------------------------------------------------------
(* Errors and promise outcomes.  An Error object has an identity (`id`) and *)
(* a message, kept as the sequence of the pieces it was built from.         *)

NoOutcome == [tag |-> "none", id |-> <<"none", 0>>, msg |-> <<>>]
Pending == [tag |-> "pending", id |-> <<"none", 0>>, msg |-> <<>>]
Fulfilled == [tag |-> "ok", id |-> <<"none", 0>>, msg |-> <<>>]
Rejected(id, msg) == [tag |-> "err", id |-> id, msg |-> msg]

States == {"UNINITIALIZED", "LOADING", "READY", "FAILED"}

\* call paths: loadWASM (the script's last statement), the clients 1..NCallers
\* and the runQuery() that loadFromURL starts
LoadWASMPath == 0
URLQueryPath == NCallers + 1
Clients == 1 .. NCallers
Paths == 0 .. NCallers + 1

\* every call starts at most one load
LoadIds == 1 .. NCallers + 2

Job(k, c, p, v) == [k |-> k, c |-> c, p |-> p, v |-> v]

\* a call path: what it is (kind), where it is (pc), the manager state when it
\* started (at) and when it resumed (seen), the outcome it resumed with (out),
\* how often it resumed, the manager functions it has called and those whose
\* call has completed normally on it (passed), and the texts it read
IdleCaller == [kind |-> "none", pc |-> "idle", at |-> "none", out |-> NoOutcome,
               seen |-> "none", resumed |-> 0, called |-> {}, passed |-> {},
               xml |-> EmptyText, path |-> EmptyText]

\* the whole state as one value, so that a handler's statements compose
World == [started |-> started, webAssembly |-> webAssembly,
          goDefined |-> goDefined, state |-> state,
          initPromise |-> initPromise, wasmInstance |-> wasmInstance,
          initError |-> initError, loads |-> loads, loadPc |-> loadPc,
          promise |-> promise, reactions |-> reactions, microtasks |-> microtasks,
          published |-> published, callers |-> callers, guestCalls |-> guestCalls,
          resultOutput |-> resultOutput, handlers |-> handlers, status |-> status,
          xmlInput |-> xmlInput, pathInput |-> pathInput, metrics |-> metrics,
          localStorage |-> localStorage, historyList |-> historyList,
          search |-> search, toasts |-> toasts, browser |-> browser,
          listeners |-> listeners, attached |-> attached,
          queryTimeout |-> queryTimeout, timers |-> timers, now |-> now]

\* F of the value of x: x is evaluated once, however often F uses it
With(x, F(_)) == CHOOSE r \in {F(v) : v \in {x}} : TRUE

\* the page becomes w (w is evaluated once and its fields are assigned)
CommitPage(w) ==
    \E v \in {w} :
       /\ started' = v.started
       /\ webAssembly' = v.webAssembly
       /\ goDefined' = v.goDefined
       /\ state' = v.state
       /\ initPromise' = v.initPromise
       /\ wasmInstance' = v.wasmInstance
       /\ initError' = v.initError
       /\ loads' = v.loads
       /\ loadPc' = v.loadPc
       /\ promise' = v.promise
       /\ reactions' = v.reactions
       /\ microtasks' = v.microtasks
       /\ published' = v.published
       /\ callers' = v.callers
       /\ guestCalls' = v.guestCalls
       /\ resultOutput' = v.resultOutput
       /\ handlers' = v.handlers
       /\ status' = v.status
       /\ xmlInput' = v.xmlInput
       /\ pathInput' = v.pathInput
       /\ metrics' = v.metrics
       /\ localStorage' = v.localStorage
       /\ historyList' = v.historyList
       /\ search' = v.search
       /\ toasts' = v.toasts
       /\ browser' = v.browser
       /\ listeners' = v.listeners
       /\ attached' = v.attached
       /\ queryTimeout' = v.queryTimeout
       /\ timers' = v.timers
       /\ now' = v.now

Commit(w) == CommitPage(w) /\ UNCHANGED << call, ret >>

-----------------------------------------------------------------------------
(* Promises *)

Enqueue(w, job) == [w EXCEPT !.microtasks = Append(@, job)]

\* PerformPromiseThen on the promise of _load() call p: the reaction waits
\* while the promise is pending and is queued at once when it is settled
Then(w, p, k, c) ==
    IF w.promise[p].tag = "pending"
    THEN [w EXCEPT !.reactions[p] = Append(@, Job(k, c, p, Pending))]
    ELSE Enqueue(w, Job(k, c, p, w.promise[p]))

\* an await that keeps one waiter per promise: a later one takes the place
\* of an earlier one
AwaitReplacing(w, p, k, c) ==
    IF p = 0 THEN Enqueue(w, Job(k, c, 0, Fulfilled))
    ELSE IF w.promise[p].tag = "pending"
    THEN [w EXCEPT !.reactions[p] = << Job(k, c, p, Pending) >>]
    ELSE Enqueue(w, Job(k, c, p, w.promise[p]))

\* `await x` inside an async function: a promise is waited for, any other
\* value (null) resumes the function in a later microtask
Await(w, p, k, c) ==
    IF p = 0 THEN Enqueue(w, Job(k, c, 0, Fulfilled)) ELSE Then(w, p, k, c)

\* the promise of _load() call p settles: its reactions are queued in the
\* order they were registered
SettlePromise(w, p, v) ==
    [w EXCEPT !.promise[p] = v,
              !.loadPc[p] = "done",
              !.reactions[p] = <<>>,
              !.microtasks = @ \o [i \in 1 .. Len(w.reactions[p]) |->
                                      [w.reactions[p][i] EXCEPT !.v = v]]]

-----------------------------------------------------------------------------
(* WASMManager *)

LoadErrorPrefix == <<"Failed to load WebAssembly module: ">>

\* the catch block of _load, lines 430-433: the promise of call i is rejected
\* with a new Error that carries the cause's message
_loadFails(w, i, cause) ==
    SettlePromise(w, i, Rejected(<<"_load", i>>, LoadErrorPrefix \o cause))

\* _load up to its first await, lines 405-408; new Go() throws when the class
\* is not defined
_load(w) ==
    LET i == w.loads + 1
        w1 == [w EXCEPT !.loads = i,
                        !.loadPc[i] = "fetch",
                        !.promise[i] = Pending,
                        !.reactions[i] = <<>>]
    IN  IF w.goDefined THEN w1 ELSE _loadFails(w1, i, <<"Go is not defined">>)

\* the promise an initialize() call of path c returned settles with v: the
\* function awaiting it resumes in a microtask.  loadWASM and a client await
\* it themselves (line 201); otherwise ensureReady awaits it (line 451)
SettleCall(w, c, v) ==
    LET w1 == IF v.tag = "ok" THEN [w EXCEPT !.callers[c].passed = @ \cup {"initialize"}]
              ELSE w
    IN  IF w.callers[c].kind \in {"loadWASM", "initialize"}
        THEN Enqueue(w1, Job("resume", c, 0, v))
        ELSE Enqueue(w1, Job("ensureReady", c, 0, v))

\* `return this.initPromise` in an async function: the call's promise is
\* resolved with a promise, which it adopts in a microtask of its own
ReturnInitPromise(w, c) ==
    IF w.initPromise = 0
    THEN SettleCall(w, c, Fulfilled)
    ELSE Enqueue(w, Job("adopt", c, w.initPromise, Pending))

\* initialize without the check of line 380: every call loads
initializeAlwaysLoads(w, c) ==
    LET w1 == [w EXCEPT !.state = "LOADING",
                        !.callers[c].called = @ \cup {"initialize"}]
        w2 == _load(w1)
        w3 == [w2 EXCEPT !.initPromise = w2.loads]
    IN  Await(w3, w3.initPromise, "initialize", c)

\* initialize up to its await, lines 378-388
initialize(w, c) ==
    IF w.initPromise # 0
    THEN ReturnInitPromise([w EXCEPT !.callers[c].called = @ \cup {"initialize"}], c)
    ELSE LET w1 == [w EXCEPT !.state = "LOADING",
                             !.callers[c].called = @ \cup {"initialize"}]
             w2 == _load(w1)
             w3 == [w2 EXCEPT !.initPromise = w2.loads]
         IN  Await(w3, w3.initPromise, "initialize", c)

\* a catch that sets the state and forgets the error
initializeResumesDropsError(w, c, v) ==
    IF v.tag = "ok"
    THEN ReturnInitPromise([w EXCEPT !.state = "READY"], c)
    ELSE SettleCall([w EXCEPT !.state = "FAILED"], c, v)

\* initialize after its await, lines 388-398
initializeResumes(w, c, v) ==
    IF v.tag = "ok"
    THEN ReturnInitPromise([w EXCEPT !.state = "READY"], c)
    ELSE SettleCall([w EXCEPT !.state = "FAILED", !.initError = v], c, v)

InitFailedPrefix == <<"WASM initialization failed: ">>

\* the Error ensureReady throws in state FAILED, line 449
InitializationFailed(w, c) ==
    IF w.initError.tag = "err"
    THEN Rejected(<<"ensureReady", c>>, InitFailedPrefix \o w.initError.msg)
    ELSE Rejected(<<"TypeError", c>>, <<"Cannot read properties of null">>)

\* ensureReady that returns at once while LOADING, without the await of line 446
ensureReadyNoAwait(w, c) ==
    LET w1 == [w EXCEPT !.callers[c].called = @ \cup {"ensureReady"}]
    IN  CASE w.state \in {"READY", "LOADING"} ->
                 Enqueue([w1 EXCEPT !.callers[c].passed = @ \cup {"ensureReady"}],
                         Job("resume", c, 0, Fulfilled))
          [] w.state = "FAILED" ->
                 Enqueue(w1, Job("resume", c, 0, InitializationFailed(w, c)))
          [] w.state = "UNINITIALIZED" -> initialize(w1, c)

\* ensureReady that loads again when FAILED
ensureReadyRetries(w, c) ==
    LET w1 == [w EXCEPT !.callers[c].called = @ \cup {"ensureReady"}]
    IN  CASE w.state = "READY" ->
                 Enqueue([w1 EXCEPT !.callers[c].passed = @ \cup {"ensureReady"}],
                         Job("resume", c, 0, Fulfilled))
          [] w.state = "LOADING" -> Await(w1, w.initPromise, "ensureReady", c)
          [] w.state \in {"FAILED", "UNINITIALIZED"} ->
                 initialize([w1 EXCEPT !.initPromise = 0], c)

\* ensureReady up to its await or return, lines 441-454; the caller awaits
\* the promise it returns
ensureReady(w, c) ==
    LET w1 == [w EXCEPT !.callers[c].called = @ \cup {"ensureReady"}]
    IN  CASE w.state = "READY" ->
                 Enqueue([w1 EXCEPT !.callers[c].passed = @ \cup {"ensureReady"}],
                         Job("resume", c, 0, Fulfilled))
          [] w.state = "LOADING" -> Await(w1, w.initPromise, "ensureReady", c)
          [] w.state = "FAILED" ->
                 Enqueue(w1, Job("resume", c, 0, InitializationFailed(w, c)))
          [] w.state = "UNINITIALIZED" -> initialize(w1, c)

\* ensureReady that wraps the awaited rejection in an Error of its own
ensureReadyResumesWraps(w, c, v) ==
    IF v.tag = "ok"
    THEN Enqueue([w EXCEPT !.callers[c].passed = @ \cup {"ensureReady"}],
                 Job("resume", c, 0, v))
    ELSE Enqueue(w, Job("resume", c, 0,
                        Rejected(<<"ensureReady", c>>, InitFailedPrefix \o v.msg)))

\* ensureReady after its await, lines 446-447 and 451-452: it returns, or
\* the awaited rejection leaves it as it is
ensureReadyResumes(w, c, v) ==
    Enqueue(IF v.tag = "ok" THEN [w EXCEPT !.callers[c].passed = @ \cup {"ensureReady"}]
            ELSE w,
            Job("resume", c, 0, v))

-----------------------------------------------------------------------------
(* The host's call paths *)

\* path c starts: what it is, the state it starts in, the texts it read
Begin(w, c, kind, xml, path) ==
    [w EXCEPT !.callers[c] = [IdleCaller EXCEPT !.kind = kind, !.pc = "waiting",
                                                !.at = w.state,
                                                !.xml = xml, !.path = path]]

\* path c resumes after its await with outcome v
Finish(w, c, v) ==
    [w EXCEPT !.callers[c].pc = "done",
              !.callers[c].out = v,
              !.callers[c].seen = w.state,
              !.callers[c].resumed = @ + 1]

Thrown(msg) == [kind |-> "throw", val |-> msg]

\* the fault of a call into a guest that has exited: the engine's panicAt
\* is then "exit"
GuestExited == <<"Go program has already exited">>

\* a call of window[op] from the host: a TypeError when nothing callable is
\* published under that name and the fault above when the guest has
\* exited, otherwise the guest function runs; a panic that leaves the guest
\* function reaches the host as an exception
CallGuest(w, op, args, eng) ==
    IF op \notin w.published
    THEN Thrown(<<"window.", op, " is not a function">>)
    ELSE IF eng.panicAt = "exit" THEN Thrown(GuestExited)
    ELSE LET r == CASE op = "executeQuery" -> executeQuery(args, eng)
                    [] op = "validateXML" -> validateXML(args, eng)
                    [] op = "getVersion" -> getVersion(args)
         IN  IF r.kind = "panic" THEN Thrown(<<"panic: ", r.val>>) ELSE r

\* the guest was entered from path c
RecordGuestCall(w, c, op) ==
    IF op \notin w.published THEN w
    ELSE [w EXCEPT !.guestCalls = @ \cup {[op |-> op, by |-> c, st |-> w.state,
                                           passed |-> w.callers[c].passed]}]

-----------------------------------------------------------------------------
(* EventManager.  A name (an element id, an event name) is the sequence of *)
(* the pieces that '-' separates in it, so that joining two names with '-' *)
(* is the concatenation of the sequences.                                  *)

\* a target: `node` is its identity and `id` its id attribute (<<>>: none);
\* kind "element" is an EventTarget, "broken" one whose removeEventListener
\* throws, "plain" an object without addEventListener, "null" no object
Target(node, id, kind) == [node |-> node, id |-> id, kind |-> kind]

NullTarget == Target("null", <<>>, "null")

\* the key of lines 307 and 326: `${element.id || 'anonymous'}-${event}`
KeyOf(element, event) ==
    (IF element.id = <<>> THEN <<"anonymous">> ELSE element.id) \o event

\* what addEventListener attaches and removeEventListener detaches
Slot(element, event, handler) == [node |-> element.node, event |-> event, handler |-> handler]

\* the position of the key in the Map, 0 when the Map does not have it
Tracked(tracked, key) ==
    IF \E i \in 1 .. Len(tracked) : tracked[i].key = key
    THEN CHOOSE i \in 1 .. Len(tracked) : tracked[i].key = key
    ELSE 0

\* EventManager.add, lines 301-318; over: an exception left it
add(w0, element, event, handler) ==
    With(w0, LAMBDA w :
        IF element.kind \in {"null", "plain"} THEN [w |-> w, over |-> FALSE]
        ELSE LET key == KeyOf(element, event)
                 i == Tracked(w.listeners, key)
                 entry == [key |-> key, element |-> element, event |-> event,
                           handler |-> handler]
             IN  IF i # 0 /\ w.listeners[i].element.kind = "broken"
                 THEN [w |-> w, over |-> TRUE]
                 ELSE [w |-> [w EXCEPT
                         !.attached =
                             (IF i = 0 THEN @
                              ELSE @ \ {Slot(w.listeners[i].element, w.listeners[i].event,
                                             w.listeners[i].handler)})
                                 \cup {Slot(element, event, handler)},
                         !.listeners = IF i = 0 THEN Append(@, entry)
                                       ELSE [@ EXCEPT ![i] = entry]],
                       over |-> FALSE])

\* the Map without the entry at position i
Deleted(tracked, i) ==
    [j \in 1 .. Len(tracked) - 1 |-> IF j < i THEN tracked[j] ELSE tracked[j + 1]]

\* EventManager.remove, lines 325-337: element.id of null is a TypeError
remove(w0, element, event) ==
    With(w0, LAMBDA w :
        IF element.kind = "null" THEN [w |-> w, over |-> TRUE]
        ELSE LET i == Tracked(w.listeners, KeyOf(element, event))
             IN  IF i = 0 THEN [w |-> w, over |-> FALSE]
                 ELSE IF w.listeners[i].element.kind = "broken"
                 THEN [w |-> w, over |-> TRUE]
                 ELSE [w |-> [w EXCEPT
                         !.attached = @ \ {Slot(w.listeners[i].element, w.listeners[i].event,
                                                w.listeners[i].handler)},
                         !.listeners = Deleted(@, i)],
                       over |-> FALSE])

\* the loop of cleanup from position i on: it ends at the first target
\* whose removeEventListener throws
RECURSIVE cleanupFrom(_, _)
cleanupFrom(w, i) ==
    IF i > Len(w.listeners) THEN [w |-> [w EXCEPT !.listeners = <<>>], over |-> FALSE]
    ELSE IF w.listeners[i].element.kind = "broken" THEN [w |-> w, over |-> TRUE]
    ELSE cleanupFrom([w EXCEPT !.attached =
                         @ \ {Slot(w.listeners[i].element, w.listeners[i].event,
                                   w.listeners[i].handler)}],
                     i + 1)

\* EventManager.cleanup, lines 342-351
cleanup(w) == cleanupFrom(w, 1)

\* the elements of the page, lines 211-220, and document
PageElement(id, pieces) == Target(id, pieces, "element")
Document == Target("document", <<>>, "element")

\* the handlers initializePlayground registers, lines 238-280
PageRegistrations ==
    << <<PageElement("execute-btn", <<"execute", "btn">>), <<"click">>, "runQuery">>,
       <<PageElement("share-btn", <<"share", "btn">>), <<"click">>, "shareQuery">>,
       <<PageElement("copy-result-btn", <<"copy", "result", "btn">>), <<"click">>,
         "copyResult">>,
       <<PageElement("clear-result-btn", <<"clear", "result", "btn">>), <<"click">>,
         "clearResult">>,
       <<PageElement("clear-xml-btn", <<"clear", "xml", "btn">>), <<"click">>, "clearXml">>,
       <<PageElement("example-category", <<"example", "category">>), <<"change">>,
         "populateExamples">>,
       <<PageElement("clear-history-btn", <<"clear", "history", "btn">>), <<"click">>,
         "clearHistory">>,
       <<Document, <<"keydown">>, "keydownHandler">>,
       <<PageElement("xml-input", <<"xml", "input">>), <<"input">>, "runQueryDebounced">>,
       <<PageElement("path-input", <<"path", "input">>), <<"input">>, "runQueryDebounced">> >>

\* the calls of eventManager.add of initializePlayground from the i-th on
RECURSIVE registerFrom(_, _)
registerFrom(w, i) ==
    IF i > Len(PageRegistrations) THEN w
    ELSE registerFrom(add(w, PageRegistrations[i][1], PageRegistrations[i][2],
                          PageRegistrations[i][3]).w, i + 1)

\* the registry before and after initializePlayground
NoHandlers == [listeners |-> <<>>, attached |-> {}]
PageHandlers == registerFrom(NoHandlers, 1)

-----------------------------------------------------------------------------
(* The session state: the query history kept in localStorage and the       *)
(* shared state kept in the page URL                                       *)

\* JavaScript's null
JSNull == [type |-> "null", text |-> EmptyText]

\* !v for the values above: null and the empty string are falsy (JSNumber
\* stands for a number other than 0)
Falsy(v) == v.type = "null" \/ (v.type = "string" /\ Length(v.text) = 0)

\* what the browser does with a write: setItem throws when the quota is
\* used up or storage is disabled, replaceState when the browser refuses it
Browser(setItem, replaceState) == [setItem |-> setItem, replaceState |-> replaceState]

\* JSON values: an array of values, or a value of another kind
JSONArray(items) == [type |-> "array", items |-> items]
JSONObject == [type |-> "object", items |-> <<>>]

\* an item of localStorage: absent (getItem gives null), the empty string,
\* a JSON text, or a text that is not JSON
NoItem == [kind |-> "null", json |-> JSONObject]
EmptyItem == [kind |-> "empty", json |-> JSONObject]
NotJSON == [kind |-> "garbage", json |-> JSONObject]

JSONStringify(v) == [kind |-> "text", json |-> v]

JSONParse(raw) ==
    IF raw.kind = "text" THEN Returned(raw.json)
    ELSE Thrown(<<"Unexpected token in JSON">>)

\* the filter of lines 739-743 and 774-778
IsHistoryItem(item) ==
    item.type = "string" /\ Length(item.text) > 0 /\ Length(item.text) < 1000

\* the history read from the store, lines 734-745 and 767-780: the items
\* that pass the filter, or the exception of JSON.parse
storedHistory(raw) ==
    IF raw.kind \in {"null", "empty"} THEN Returned(<<>>)
    ELSE LET parsed == JSONParse(raw)
         IN  IF parsed.kind = "throw" THEN parsed
             ELSE IF parsed.val.type = "array"
             THEN Returned(SelectSeq(parsed.val.items, IsHistoryItem))
             ELSE Returned(<<>>)

\* the paths shown for a history, lines 795-806
Shown(history) == [i \in 1 .. Len(history) |-> history[i].text]

\* loadHistory, lines 760-818
loadHistory(w0) ==
    With(w0, LAMBDA w :
        LET r == storedHistory(w.localStorage)
        IN  IF r.kind = "throw"
            THEN [w EXCEPT !.localStorage = NoItem, !.historyList = <<>>]
            ELSE [w EXCEPT !.historyList = Shown(r.val)])

\* v.length: a TypeError for null, undefined (0 here) for a number
LengthOf(v) ==
    CASE v.type = "null" -> Thrown(<<"Cannot read properties of null (reading 'length')">>)
      [] v.type = "string" -> Returned(Length(v.text))
      [] OTHER -> Returned(0)

\* a check that rejects nothing
historyRejectsNothing(path) == Returned(FALSE)

\* the condition of line 729, evaluated from left to right: whether
\* saveToHistory rejects the path, or the exception of the evaluation
historyRejects(path) ==
    IF Falsy(path) \/ path.type # "string" THEN Returned(TRUE)
    ELSE LET l == LengthOf(path)
         IN  IF l.kind = "throw" THEN l ELSE Returned(l.val > 1000)

\* the new history without the removal of the path
historyWithAppends(history, path) ==
    LET added == <<path>> \o history
    IN  SubSeq(added, 1, IF Len(added) < 5 THEN Len(added) ELSE 5)

\* the new history, lines 748-750
historyWith(history, path) ==
    LET added == <<path>> \o SelectSeq(history, LAMBDA p : p # path)
    IN  SubSeq(added, 1, IF Len(added) < 5 THEN Len(added) ELSE 5)

\* saveToHistory, lines 727-758; over: an exception left it
saveToHistory(w0, path) ==
    With(w0, LAMBDA w :
        LET rejects == historyRejects(path)
            r == storedHistory(w.localStorage)
        IN  IF rejects.kind = "throw" THEN [w |-> w, over |-> TRUE]
            ELSE IF rejects.val THEN [w |-> w, over |-> FALSE]
            ELSE IF r.kind = "throw" \/ ~w.browser.setItem THEN [w |-> w, over |-> FALSE]
            ELSE [w |-> loadHistory([w EXCEPT !.localStorage =
                                        JSONStringify(JSONArray(historyWith(r.val, path)))]),
                  over |-> FALSE])

showToast(w, message) == [w EXCEPT !.toasts = @ \cup {message}]

\* clearHistory, lines 825-829
clearHistory(w) ==
    showToast(loadHistory([w EXCEPT !.localStorage = NoItem]), "History cleared")

\* the first built-in example, lines 8-14: 152 characters, none of them
\* removed by trim
DefaultXML == Text(0, 152, 1)

\* a field of the shared state: absent, or present with a text
Absent == [has |-> FALSE, text |-> EmptyText]
Present(t) == [has |-> TRUE, text |-> t]

\* application/x-www-form-urlencoded: a space becomes '+', a character of
\* one byte stays, each byte of any other character becomes %XX
URLEncode(t) == [plus |-> t.ws, run |-> t.n, bytes |-> t.w]
URLDecode(e) == Text(e.plus, e.run, e.bytes)
EncodedLength(e) == e.plus + e.run * (IF e.bytes = 1 THEN 1 ELSE 3 * e.bytes)

\* URLSearchParams.toString and new URLSearchParams(query)
SerializeParams(params) ==
    [k \in {"xml", "path"} |-> [has |-> params[k].has, enc |-> URLEncode(params[k].text)]]
ParseParams(query) ==
    [k \in {"xml", "path"} |-> [has |-> query[k].has, text |-> URLDecode(query[k].enc)]]

\* the empty query string
NoSearch == SerializeParams([xml |-> Absent, path |-> Absent])

\* encodeStateToURL, lines 888-909
encodeStateToURL(xml, path) ==
    SerializeParams([xml |-> IF Length(xml) # 0 /\ xml # DefaultXML THEN Present(xml) ELSE Absent,
                     path |-> IF Length(path) # 0 THEN Present(path) ELSE Absent])

\* a decoder that does not undo the encoding
decodeStateRaw(query) ==
    [k \in {"xml", "path"} |->
        [has |-> query[k].has, text |-> Text(0, EncodedLength(query[k].enc), 1)]]

\* decodeStateFromURL, lines 911-942
decodeStateFromURL(query) ==
    LET params == ParseParams(query)
    IN  IF params.xml.has /\ Length(params.xml.text) > 10485760
        THEN [xml |-> Absent, path |-> Absent]
        ELSE IF params.path.has /\ Length(params.path.text) > 4096
        THEN [xml |-> Absent, path |-> Absent]
        ELSE params

\* updateURL, lines 977-992
\* an updateURL that leaves the URL of the page alone
updateURLNever(w0, xml, path) == w0

updateURL(w0, xml, path) ==
    With(w0, LAMBDA w :
        IF Length(path) = 0 \/ ~w.browser.replaceState THEN w
        ELSE [w EXCEPT !.search = encodeStateToURL(xml, path)])

\* the metrics line: hidden, or shown with the size and index of a result
MetricsHidden == [className |-> "query-metrics metrics-hidden", shown |-> <<>>]
MetricsError == [className |-> "query-metrics metrics-error", shown |-> <<>>]
MetricsSuccess(size, index) ==
    [className |-> "query-metrics metrics-success", shown |-> <<size, index>>]

Cleared == [value |-> <<>>, className |-> ""]
ShowError(msg) == [value |-> msg, className |-> "result-error"]
ShowResult(msg) == [value |-> msg, className |-> "result-success"]

MAX_XML_SIZE == 10 * 1024 * 1024
MAX_PATH_SIZE == 4 * 1024

\* String.prototype.includes on a message kept in pieces
Includes(msg, piece) ==
    \E i \in 1 .. Len(msg) :
        \/ msg[i] = piece
        \/ piece = "too large" /\ msg[i] \in {"XML too large (", "Query too large ("}

\* runQuery that goes on to the guest call without ensureReady()
runQuerySkipsEnsureReady(w0, c) ==
    With(w0, LAMBDA w :
        LET xml == Trim(w.xmlInput)
            path == Trim(w.pathInput)
            w1 == Begin(w, c, "runQuery", xml, path)
        IN  IF Length(xml) = 0 \/ Length(path) = 0
            THEN [w1 EXCEPT !.resultOutput = Cleared, !.metrics = MetricsHidden,
                            !.callers[c].pc = "done"]
            ELSE Enqueue(w1, Job("resume", c, 0, Fulfilled)))

\* a runQuery without the check of lines 489-495
runQueryNoEmptyCheck(w0, c) ==
    With(w0, LAMBDA w :
        ensureReady(Begin(w, c, "runQuery", Trim(w.xmlInput), Trim(w.pathInput)), c))

\* runQuery up to its await, lines 477-499
runQuery(w0, c) ==
    With(w0, LAMBDA w :
        LET xml == Trim(w.xmlInput)
            path == Trim(w.pathInput)
            w1 == Begin(w, c, "runQuery", xml, path)
        IN  IF Length(xml) = 0 \/ Length(path) = 0
            THEN [w1 EXCEPT !.resultOutput = Cleared, !.metrics = MetricsHidden,
                            !.callers[c].pc = "done"]
            ELSE ensureReady(w1, c))

\* a runQuery that shows a result and neither records nor shares it
runQueryShowsOnly(w0, c, r) ==
    With(w0, LAMBDA w :
        LET me == w.callers[c]
        IN  IF r.kind = "throw"
            THEN [w EXCEPT !.resultOutput = ShowError(<<"Error: ">> \o r.val),
                           !.metrics = MetricsHidden]
            ELSE IF "error" \in DOMAIN r.val
            THEN [w EXCEPT !.resultOutput = ShowError(
                      <<"Error: ">> \o r.val.error \o
                      (IF Includes(r.val.error, "timeout")
                       THEN <<"\n\nTip: Try simplifying your query or reducing the XML document size.">>
                       ELSE IF Includes(r.val.error, "too large")
                       THEN <<"\n\nTip: The playground has resource limits. Consider breaking your query into smaller parts.">>
                       ELSE <<>>)),
                           !.metrics = MetricsError]
            ELSE [w EXCEPT !.resultOutput = ShowResult(
                                <<"Value: ", r.val.value, "Type: ", r.val.type, "Exists: ",
                                  r.val.exists, "Index: ", r.val.index, "Raw:", r.val.raw>>),
                                     !.metrics = MetricsSuccess(<<"length of">> \o r.val.raw,
                                                                r.val.index)])

\* a runQuery that records the query before it looks at the result
runQueryShowsRecordsFirst(w0, c, r) ==
    With(w0, LAMBDA w :
        LET me == w.callers[c]
        IN  IF r.kind = "throw"
            THEN [w EXCEPT !.resultOutput = ShowError(<<"Error: ">> \o r.val),
                           !.metrics = MetricsHidden]
            ELSE With(saveToHistory(w, JSString(me.path)), LAMBDA saved :
                     With(updateURL(saved.w, me.xml, me.path), LAMBDA w1 :
                         IF "error" \in DOMAIN r.val
                         THEN [w1 EXCEPT !.resultOutput =
                                             ShowError(<<"Error: ">> \o r.val.error),
                                         !.metrics = MetricsError]
                         ELSE [w1 EXCEPT !.resultOutput = ShowResult(
                                  <<"Value: ", r.val.value, "Type: ", r.val.type, "Exists: ",
                                    r.val.exists, "Index: ", r.val.index, "Raw:", r.val.raw>>),
                                         !.metrics = MetricsSuccess(
                                             <<"length of">> \o r.val.raw, r.val.index)])))

\* runQuery after the guest call, lines 547-588 and the catch at 590-595
runQueryShows(w0, c, r) ==
    With(w0, LAMBDA w :
        LET me == w.callers[c]
        IN  IF r.kind = "throw"
            THEN [w EXCEPT !.resultOutput = ShowError(<<"Error: ">> \o r.val),
                           !.metrics = MetricsHidden]
            ELSE IF "error" \in DOMAIN r.val
            THEN [w EXCEPT !.resultOutput = ShowError(
                      <<"Error: ">> \o r.val.error \o
                      (IF Includes(r.val.error, "timeout")
                       THEN <<"\n\nTip: Try simplifying your query or reducing the XML document size.">>
                       ELSE IF Includes(r.val.error, "too large")
                       THEN <<"\n\nTip: The playground has resource limits. Consider breaking your query into smaller parts.">>
                       ELSE <<>>)),
                           !.metrics = MetricsError]
            ELSE LET w1 == [w EXCEPT !.resultOutput = ShowResult(
                                <<"Value: ", r.val.value, "Type: ", r.val.type, "Exists: ",
                                  r.val.exists, "Index: ", r.val.index, "Raw:", r.val.raw>>),
                                     !.metrics = MetricsSuccess(<<"length of">> \o r.val.raw,
                                                                r.val.index)]
                 IN  With(saveToHistory(w1, JSString(me.path)), LAMBDA saved :
                         IF saved.over
                         THEN [saved.w EXCEPT !.resultOutput =
                                                  ShowError(<<"Error: ", "TypeError">>),
                                              !.metrics = MetricsHidden]
                         ELSE updateURL(saved.w, me.xml, me.path)))

\* a runQuery without the size checks of lines 514-528
runQueryResumesUnchecked(w0, c, v, eng) ==
    With(w0, LAMBDA w :
        LET me == w.callers[c]
            w1 == Finish(w, c, v)
        IN  IF v.tag # "ok"
            THEN [w1 EXCEPT !.resultOutput =
                     ShowError(<<"Error: ">> \o v.msg \o <<"\n\nPlease refresh the page.">>),
                            !.metrics = MetricsHidden]
            ELSE runQueryShows(RecordGuestCall(w1, c, "executeQuery"), c,
                               CallGuest(w1, "executeQuery",
                                         <<JSString(me.xml), JSString(me.path)>>, eng)))

\* runQuery after its await, lines 499-596
runQueryResumes(w0, c, v, eng) ==
    With(w0, LAMBDA w :
        LET me == w.callers[c]
            w1 == Finish(w, c, v)
        IN  IF v.tag # "ok"
            THEN [w1 EXCEPT !.resultOutput =
                     ShowError(<<"Error: ">> \o v.msg \o <<"\n\nPlease refresh the page.">>),
                            !.metrics = MetricsHidden]
            ELSE IF Length(me.xml) > MAX_XML_SIZE
            THEN [w1 EXCEPT !.resultOutput =
                     ShowError(<<"Error: XML document too large (", ToString(Length(me.xml)),
                                 ", max 10MB)">>),
                            !.metrics = MetricsHidden]
            ELSE IF Length(me.path) > MAX_PATH_SIZE
            THEN [w1 EXCEPT !.resultOutput =
                     ShowError(<<"Error: Query path too large (", ToString(Length(me.path)),
                                 ", max 4KB)">>),
                            !.metrics = MetricsHidden]
            ELSE runQueryShows(RecordGuestCall(w1, c, "executeQuery"), c,
                               CallGuest(w1, "executeQuery",
                                         <<JSString(me.xml), JSString(me.path)>>, eng)))

\* a loadFromURL that fills the fields before it validates the document
loadFromURLFillsFirst(w0, eng) ==
    With(w0, LAMBDA w :
        LET url == decodeStateFromURL(w.search)
            wf == [w EXCEPT !.xmlInput = IF url.xml.has THEN url.xml.text ELSE @,
                            !.pathInput = IF url.path.has THEN url.path.text ELSE @]
            r == CallGuest(wf, "validateXML", <<JSString(url.xml.text)>>, eng)
        IN  IF Length(url.xml.text) = 0 /\ Length(url.path.text) = 0
            THEN [w |-> w, over |-> FALSE]
            ELSE IF "validateXML" \notin w.published \/ r.kind = "throw" \/ r.val = FALSE
            THEN [w |-> showToast(wf, "Shared XML is invalid"), over |-> FALSE]
            ELSE [w |-> runQuery(RecordGuestCall(wf, LoadWASMPath, "validateXML"), URLQueryPath),
                  over |-> FALSE])

\* loadFromURL, lines 944-975 (a field that is absent and one that is empty
\* are both falsy); over: an exception left it
loadFromURL(w0, eng) ==
    With(w0, LAMBDA w :
        LET url == decodeStateFromURL(w.search)
            xml == url.xml.text
            path == url.path.text
            r == CallGuest(w, "validateXML", <<JSString(xml)>>, eng)
            w1 == RecordGuestCall(w, LoadWASMPath, "validateXML")
            w2 == IF Length(xml) = 0 THEN w ELSE [w1 EXCEPT !.xmlInput = xml]
        IN  IF Length(xml) = 0 /\ Length(path) = 0 THEN [w |-> w, over |-> FALSE]
            ELSE IF Length(xml) # 0 /\ Length(xml) > 10485760
            THEN [w |-> showToast(w, "Shared XML too large (max 10MB)"), over |-> FALSE]
            ELSE IF Length(xml) # 0 /\ "validateXML" \notin w.published
            THEN [w |-> showToast(w, "Shared XML is invalid"), over |-> FALSE]
            ELSE IF Length(xml) # 0 /\ r.kind = "throw" THEN [w |-> w1, over |-> TRUE]
            ELSE IF Length(xml) # 0 /\ r.val = FALSE
            THEN [w |-> showToast(w1, "Shared XML is invalid"), over |-> FALSE]
            ELSE IF Length(path) = 0 THEN [w |-> w2, over |-> FALSE]
            ELSE IF Length(path) > 4096
            THEN [w |-> showToast(w2, "Shared path too large (max 4KB)"), over |-> FALSE]
            ELSE [w |-> runQuery([w2 EXCEPT !.pathInput = path], URLQueryPath),
                  over |-> FALSE])

\* initializePlayground, lines 210-283
initializePlayground(w, eng) ==
    With(loadFromURL(loadHistory(w), eng), LAMBDA l :
        LET w1 == [registerFrom(l.w, 1) EXCEPT !.handlers = TRUE]
            r == CallGuest(w1, "getVersion", <<>>, eng)
        IN  IF l.over THEN [w |-> l.w, over |-> TRUE]
            ELSE [w |-> RecordGuestCall(w1, LoadWASMPath, "getVersion"),
                  over |-> r.kind = "throw"])

\* loadWASM up to its await, lines 199-201
loadWASM(w) ==
    initialize(Begin(w, LoadWASMPath, "loadWASM", EmptyText, EmptyText), LoadWASMPath)

\* a loadWASM that initializes the playground whatever initialize() gave
loadWASMResumesAlways(w, v, eng) ==
    With(Finish(w, LoadWASMPath, v), LAMBDA w1 :
        With(initializePlayground([w1 EXCEPT !.status = "success"], eng), LAMBDA i :
            IF i.over THEN [i.w EXCEPT !.status = "error"] ELSE i.w))

\* loadWASM after its await, lines 201-206
loadWASMResumes(w, v, eng) ==
    With(Finish(w, LoadWASMPath, v), LAMBDA w1 :
        IF v.tag # "ok" THEN [w1 EXCEPT !.status = "error"]
        ELSE With(initializePlayground([w1 EXCEPT !.status = "success"], eng), LAMBDA i :
                 IF i.over THEN [i.w EXCEPT !.status = "error"] ELSE i.w))

-----------------------------------------------------------------------------
(* Inputs *)

\* the texts a user or a shared link puts in the document and path fields
QueryTexts == {EmptyText, Text(1, 2, 1)}

\* the query strings the page is opened with: none, or a shared link
URLStates ==
    {SerializeParams([xml |-> x, path |-> p]) : x \in {Absent, Present(Text(0, 2, 1))},
                                                p \in {Absent, Present(Text(0, 1, 1))}}

\* a browser that accepts every write
PageBrowsers == {Browser(TRUE, TRUE)}

Engine(panicAt, valid, tag) ==
    [panicAt |-> panicAt, panicValue |-> "runtime error: index out of range",
     valid |-> valid, tag |-> tag, exists |-> TRUE, index |-> 0]

\* what the engine does under a call made by the page
PageEngines == {Engine("none", TRUE, 5), Engine("none", FALSE, 5), Engine("Get", TRUE, 5)}

\* how a fetch of xmldot.wasm ends: a response that is ok, one that is not,
\* or a network error
FetchOutcomes == {"ok", "notOk", "error"}

-----------------------------------------------------------------------------
(* The state after the script has constructed wasmManager, line 474 *)

NoCall == [op |-> "none", args |-> <<>>, eng |-> Engine("none", TRUE, 0)]
NoReturn == [kind |-> "none", val |-> <<>>, raised |-> FALSE]

InitPage ==
    /\ started = FALSE
    /\ webAssembly \in BOOLEAN
    /\ goDefined \in BOOLEAN
    /\ state = "UNINITIALIZED"
    /\ initPromise = 0
    /\ wasmInstance = 0
    /\ initError = NoOutcome
    /\ loads = 0
    /\ loadPc = [i \in LoadIds |-> "unused"]
    /\ promise = [i \in LoadIds |-> NoOutcome]
    /\ reactions = [i \in LoadIds |-> <<>>]
    /\ microtasks = <<>>
    /\ published = {}
    /\ callers = [c \in Paths |-> IdleCaller]
    /\ guestCalls = {}
    /\ resultOutput = Cleared
    /\ handlers = FALSE
    /\ status = "loading"
    /\ xmlInput = EmptyText
    /\ pathInput = EmptyText
    /\ metrics = MetricsHidden
    /\ localStorage = NoItem
    /\ historyList = <<>>
    /\ search \in URLStates
    /\ toasts = {}
    /\ browser \in PageBrowsers
    /\ listeners = <<>>
    /\ attached = {}
    /\ queryTimeout = 0
    /\ timers = <<>>
    /\ now = 0

Init ==
    /\ InitPage
    /\ call = NoCall
    /\ ret = NoReturn

-----------------------------------------------------------------------------
(* Macrotasks: each runs when the microtask queue is empty *)

\* the script's last statement, lines 1054-1059
Startup ==
    /\ ~started
    /\ Commit(IF webAssembly
              THEN loadWASM([World EXCEPT !.started = TRUE])
              ELSE [World EXCEPT !.started = TRUE, !.status = "error"])

Idle == started /\ microtasks = <<>>

\* clients take the call paths in order
NextClient(c) ==
    /\ c \in Clients
    /\ callers[c].pc = "idle"
    /\ \A d \in Clients : d < c => callers[d].pc # "idle"

\* a client calls wasmManager.initialize() and awaits it
ClientInitialize(c) ==
    /\ Idle
    /\ NextClient(c)
    /\ Commit(initialize(Begin(World, c, "initialize", EmptyText, EmptyText), c))

\* a client calls wasmManager.ensureReady() and awaits it
ClientEnsureReady(c) ==
    /\ Idle
    /\ NextClient(c)
    /\ Commit(ensureReady(Begin(World, c, "ensureReady", EmptyText, EmptyText), c))

\* the document and path fields are given the texts x and p and runQuery is
\* called, as loadExample does (lines 719-722)
RunQuery(c, x, p) ==
    /\ Idle
    /\ NextClient(c)
    /\ Commit(runQuery([World EXCEPT !.xmlInput = x, !.pathInput = p], c))

\* the fetch of _load() call i settles, lines 408-414
FetchSettles(i, outcome) ==
    /\ Idle
    /\ loadPc[i] = "fetch"
    /\ Commit(CASE outcome = "ok" -> [World EXCEPT !.loadPc[i] = "arrayBuffer"]
                [] outcome = "notOk" ->
                     _loadFails(World, i, <<"Failed to fetch WASM: ", "404", " ", "Not Found">>)
                [] outcome = "error" -> _loadFails(World, i, <<"Failed to fetch">>))

\* response.arrayBuffer() settles, lines 414-415
ArrayBufferSettles(i, ok) ==
    /\ Idle
    /\ loadPc[i] = "arrayBuffer"
    /\ Commit(IF ok THEN [World EXCEPT !.loadPc[i] = "instantiate"]
              ELSE _loadFails(World, i, <<"The operation was aborted">>))

\* WebAssembly.instantiate settles, lines 415-419; when it succeeds the guest
\* is run and publishes `ops` on window, and the settling delay starts
InstantiateSettles(i, ok, ops) ==
    /\ Idle
    /\ loadPc[i] = "instantiate"
    /\ ok => webAssembly
    /\ Commit(IF ok THEN [World EXCEPT !.loadPc[i] = "settling",
                                       !.published = @ \cup ops]
              ELSE _loadFails(World, i, <<"WebAssembly.instantiate failed">>))

\* a check that looks for executeQuery alone
_loadVerifiesOne(w, i) ==
    IF "executeQuery" \notin w.published
    THEN _loadFails(w, i, <<"WASM functions not properly registered">>)
    ELSE SettlePromise([w EXCEPT !.wasmInstance = i], i, Fulfilled)

\* the check after the settling delay, lines 421-428
_loadVerifies(w, i) ==
    IF \E op \in GuestOps : op \notin w.published
    THEN _loadFails(w, i, <<"WASM functions not properly registered">>)
    ELSE SettlePromise([w EXCEPT !.wasmInstance = i], i, Fulfilled)

\* the settling delay of _load() call i is over, line 419
TimerFires(i) ==
    /\ Idle
    /\ loadPc[i] = "settling"
    /\ Commit(_loadVerifies(World, i))

-----------------------------------------------------------------------------
(* Microtasks: the job at the head of the queue runs *)

Dequeue(w) == [w EXCEPT !.microtasks = Tail(@)]

HeadIs(k) == microtasks # <<>> /\ Head(microtasks).k = k

InitializeResumes ==
    /\ HeadIs("initialize")
    /\ LET j == Head(microtasks) IN Commit(initializeResumes(Dequeue(World), j.c, j.v))

\* the promise of an initialize() call adopts the promise it was resolved with
Adopt ==
    /\ HeadIs("adopt")
    /\ LET j == Head(microtasks) IN Commit(Then(Dequeue(World), j.p, "settle", j.c))

Settle ==
    /\ HeadIs("settle")
    /\ LET j == Head(microtasks) IN Commit(SettleCall(Dequeue(World), j.c, j.v))

EnsureReadyResumes ==
    /\ HeadIs("ensureReady")
    /\ LET j == Head(microtasks) IN Commit(ensureReadyResumes(Dequeue(World), j.c, j.v))

ClientResumes ==
    /\ HeadIs("resume")
    /\ LET j == Head(microtasks)
       IN  /\ callers[j.c].kind \in {"initialize", "ensureReady"}
           /\ Commit(Finish(Dequeue(World), j.c, j.v))

RunQueryResumes(eng) ==
    /\ HeadIs("resume")
    /\ LET j == Head(microtasks)
       IN  /\ callers[j.c].kind = "runQuery"
           /\ Commit(runQueryResumes(Dequeue(World), j.c, j.v, eng))

LoadWASMResumes(eng) ==
    /\ HeadIs("resume")
    /\ LET j == Head(microtasks)
       IN  /\ callers[j.c].kind = "loadWASM"
           /\ Commit(loadWASMResumes(Dequeue(World), j.v, eng))

Next ==
    \/ Startup
    \/ \E c \in Clients : ClientInitialize(c)
    \/ \E c \in Clients : ClientEnsureReady(c)
    \/ \E c \in Clients, x \in QueryTexts, p \in QueryTexts :
           RunQuery(c, x, p)
    \/ \E i \in LoadIds, o \in FetchOutcomes : FetchSettles(i, o)
    \/ \E i \in LoadIds, ok \in BOOLEAN : ArrayBufferSettles(i, ok)
    \/ \E i \in LoadIds, ok \in BOOLEAN, ops \in SUBSET GuestOps : InstantiateSettles(i, ok, ops)
    \/ \E i \in LoadIds : TimerFires(i)
    \/ InitializeResumes
    \/ Adopt
    \/ Settle
    \/ EnsureReadyResumes
    \/ ClientResumes
    \/ \E eng \in PageEngines : RunQueryResumes(eng)
    \/ \E eng \in PageEngines : LoadWASMResumes(eng)

Spec == Init /\ [][Next]_vars

-----------------------------------------------------------------------------
(* Properties of the lifecycle manager *)

\* path c has called initialize() or ensureReady()
HasCalled(c) == callers[c].called # {}

\* path c has resumed from its call
Resumed(c) == HasCalled(c) /\ callers[c].pc = "done"

\* C1: however many calls of initialize() and ensureReady() are made, and
\* in whatever state, _load is started at most once, and exactly once as
\* soon as one such call has been made
LoadStartedOnce ==
    /\ loads <= 1
    /\ (\E c \in Paths : HasCalled(c)) <=> loads = 1

\* calls were made while UNINITIALIZED, while LOADING and after the load
LoadStartedOnceWitness ==
    /\ loads = 1
    /\ \E c, d, e \in Paths :
          /\ HasCalled(c) /\ callers[c].at = "UNINITIALIZED"
          /\ HasCalled(d) /\ callers[d].at = "LOADING" /\ callers[d].kind = "initialize"
          /\ HasCalled(e) /\ callers[e].at \in {"READY", "FAILED"}

\* C2: the callers that called while LOADING all resume with the same
\* outcome, that of the one load: all normally, or all with the same Error
SameOutcomeWhileLoading ==
    \A c, d \in Paths :
        (Resumed(c) /\ callers[c].at = "LOADING" /\ Resumed(d) /\ callers[d].at = "LOADING")
        => /\ callers[c].out = callers[d].out
           /\ callers[c].out = promise[initPromise]
           /\ callers[c].out.tag \in {"ok", "err"}

\* an initialize() and an ensureReady() called while LOADING both failed
SameOutcomeWhileLoadingWitness ==
    \E c, d \in Paths :
        /\ Resumed(c) /\ callers[c].at = "LOADING" /\ callers[c].kind = "initialize"
        /\ Resumed(d) /\ callers[d].at = "LOADING" /\ callers[d].kind = "ensureReady"
        /\ callers[c].out.tag = "err"

\* C3: a caller that resumes normally from initialize() or ensureReady()
\* finds the state READY, and the guest is only ever entered in state READY
ReadyBeforeGuest ==
    /\ \A c \in Paths : (Resumed(c) /\ callers[c].out.tag = "ok") => callers[c].seen = "READY"
    /\ \A g \in guestCalls : g.st = "READY"

\* a runQuery that called ensureReady() while LOADING has entered the guest
ReadyBeforeGuestWitness ==
    \E c \in Paths :
        /\ Resumed(c) /\ callers[c].at = "LOADING" /\ callers[c].kind = "runQuery"
        /\ callers[c].out.tag = "ok"
        /\ \E g \in guestCalls : g.by = c /\ g.op = "executeQuery"

\* the message of the Error ends with the message of the load's Error
CarriesLoadError(msg) ==
    LET orig == promise[initPromise].msg
    IN  /\ Len(msg) >= Len(orig)
        /\ SubSeq(msg, Len(msg) - Len(orig) + 1, Len(msg)) = orig

\* C4: FAILED is terminal: the state stays FAILED, no call made in it
\* starts a load, and an ensureReady() called in it fails with an Error
\* that carries the message of the load's Error
FailedIsTerminal ==
    /\ [][state = "FAILED" => (state' = "FAILED" /\ loads' = loads /\ initError' = initError)]_vars
    /\ [](\A c \in Paths :
            (Resumed(c) /\ callers[c].at = "FAILED" /\ "ensureReady" \in callers[c].called)
            => /\ callers[c].out.tag = "err"
               /\ promise[initPromise].tag = "err"
               /\ Len(promise[initPromise].msg) > 1
               /\ CarriesLoadError(callers[c].out.msg))

\* an ensureReady() and an initialize() were called in state FAILED
FailedIsTerminalWitness ==
    /\ state = "FAILED"
    /\ \E c, d \in Paths :
          /\ Resumed(c) /\ callers[c].at = "FAILED" /\ callers[c].kind = "ensureReady"
          /\ Resumed(d) /\ callers[d].at = "FAILED" /\ callers[d].kind = "initialize"

\* C5: the state only changes from UNINITIALIZED to LOADING and from
\* LOADING to READY or to FAILED
Transitions ==
    { <<"UNINITIALIZED", "LOADING">>, <<"LOADING", "READY">>, <<"LOADING", "FAILED">> }

MonotoneState == [][state' # state => <<state, state'>> \in Transitions]_vars

\* initialize() has been called in state READY, which it left as it was
MonotoneStateWitness ==
    /\ state = "READY"
    /\ \E c \in Paths :
          Resumed(c) /\ callers[c].at = "READY" /\ callers[c].kind = "initialize"

\* the settling delay of load i is over with exactly one of the three guest
\* functions missing
OneMissingAfterDelay(i) ==
    /\ loadPc[i] = "done"
    /\ Cardinality(published) = 2

\* C6: when one of the three guest functions is missing after the
\* settling delay and the others are there, the load fails: the state is
\* never READY, it is FAILED once the queued reactions have run, and
\* ensureReady() fails
MissingEntryPointFails ==
    \A i \in LoadIds :
        OneMissingAfterDelay(i)
        => /\ promise[i].tag = "err"
           /\ state # "READY"
           /\ wasmInstance = 0
           /\ microtasks = <<>> => state = "FAILED"
           /\ \A c \in Paths :
                 (Resumed(c) /\ "ensureReady" \in callers[c].called)
                 => callers[c].out.tag = "err"

\* getVersion alone was missing, and an ensureReady() has failed
MissingEntryPointFailsWitness ==
    /\ published = {"executeQuery", "validateXML"}
    /\ state = "FAILED"
    /\ \E c \in Paths :
          Resumed(c) /\ callers[c].kind = "ensureReady" /\ callers[c].out.tag = "err"

-----------------------------------------------------------------------------
(* The event loop goes on as long as it has work: the script runs to its   *)
(* last statement, a queued microtask is run, and a step of a load that    *)
(* was started comes to an end.                                            *)

Microtask ==
    \/ InitializeResumes
    \/ Adopt
    \/ Settle
    \/ EnsureReadyResumes
    \/ ClientResumes
    \/ \E eng \in PageEngines : RunQueryResumes(eng)
    \/ \E eng \in PageEngines : LoadWASMResumes(eng)

LoadStep ==
    \/ \E i \in LoadIds, o \in FetchOutcomes : FetchSettles(i, o)
    \/ \E i \in LoadIds, ok \in BOOLEAN : ArrayBufferSettles(i, ok)
    \/ \E i \in LoadIds, ok \in BOOLEAN, ops \in SUBSET GuestOps : InstantiateSettles(i, ok, ops)
    \/ \E i \in LoadIds : TimerFires(i)

EventLoop == Startup \/ Microtask \/ LoadStep

SpecLive == Init /\ [][Next]_vars /\ WF_vars(EventLoop)

\* every path that has called initialize() or ensureReady() has resumed,
\* once, with an outcome
AllResumedOnce ==
    \A c \in Paths :
        HasCalled(c) => /\ callers[c].pc = "done"
                        /\ callers[c].resumed = 1
                        /\ callers[c].out.tag \in {"ok", "err"}

\* C7: when the load settles, every caller of initialize() or
\* ensureReady() resumes with an outcome, and none resumes twice: time and
\* again all callers so far have resumed once, and a caller that has
\* resumed is not resumed again
EveryCallerResumesOnce ==
    /\ []<>AllResumedOnce
    /\ [][\A c \in Paths : callers[c].pc = "done" => callers'[c] = callers[c]]_vars

\* loadWASM and two callers that called while LOADING have all resumed once
EveryCallerResumesOnceWitness ==
    /\ callers[LoadWASMPath].pc = "done" /\ callers[LoadWASMPath].resumed = 1
    /\ \A c \in Clients :
          /\ HasCalled(c) /\ callers[c].at = "LOADING"
          /\ callers[c].pc = "done" /\ callers[c].resumed = 1

\* C8 as stated: every guest call is made on a path on which a call of
\* ensureReady() has completed
GuestCallsAfterEnsureReady ==
    \A g \in guestCalls : "ensureReady" \in g.passed

\* C8: every guest call is made on a path on which a call of ensureReady()
\* or of initialize() has completed normally: ensureReady() before
\* executeQuery in runQuery, initialize() (awaited by loadWASM) before
\* validateXML in loadFromURL and getVersion in initializePlayground
GuestCallsAfterReadiness ==
    \A g \in guestCalls :
        /\ g.op = "executeQuery" => "ensureReady" \in g.passed
        /\ g.op \in {"validateXML", "getVersion"} =>
               (g.by = LoadWASMPath /\ "initialize" \in g.passed)

\* each of the three guest functions has been called
GuestCallsAfterReadinessWitness ==
    \A op \in GuestOps : \E g \in guestCalls : g.op = op

-----------------------------------------------------------------------------
(* The guest's functions on their own: the page is loaded and READY, and   *)
(* a guest function is entered once with any arguments, under any         *)
(* behaviour of the engine.                                                *)

\* the manager and the call paths once loadWASM has resumed
ReadyManager ==
    /\ started = TRUE /\ webAssembly = TRUE /\ goDefined = TRUE
    /\ state = "READY" /\ initPromise = 1 /\ wasmInstance = 1 /\ initError = NoOutcome
    /\ loads = 1
    /\ loadPc = [i \in LoadIds |-> IF i = 1 THEN "done" ELSE "unused"]
    /\ promise = [i \in LoadIds |-> IF i = 1 THEN Fulfilled ELSE NoOutcome]
    /\ reactions = [i \in LoadIds |-> <<>>]
    /\ microtasks = <<>>
    /\ published = GuestOps
    /\ callers = [c \in Paths |->
                    IF c = LoadWASMPath
                    THEN [IdleCaller EXCEPT !.kind = "loadWASM", !.pc = "done",
                                            !.at = "UNINITIALIZED", !.out = Fulfilled,
                                            !.seen = "READY", !.resumed = 1,
                                            !.called = {"initialize"},
                                            !.passed = {"initialize"}]
                    ELSE IdleCaller]
    /\ guestCalls = {[op |-> "getVersion", by |-> LoadWASMPath, st |-> "READY",
                      passed |-> {"initialize"}]}
    /\ handlers = TRUE
    /\ status = "success"

\* the page once loadWASM has resumed and found no shared state in the URL
ReadyPage ==
    /\ ReadyManager
    /\ resultOutput = Cleared
    /\ xmlInput = EmptyText
    /\ pathInput = EmptyText
    /\ metrics = MetricsHidden
    /\ localStorage = NoItem
    /\ historyList = <<>>
    /\ search = NoSearch
    /\ toasts = {}
    /\ browser = Browser(TRUE, TRUE)
    /\ listeners = PageHandlers.listeners
    /\ attached = PageHandlers.attached
    /\ queryTimeout = 0
    /\ timers = <<>>
    /\ now = 0

BridgeTexts ==
    { Text(0, 0, 1), Text(1, 0, 1), Text(0, 1, 1), Text(1, 1, 1),
      Text(0, MaxQuerySize, 1), Text(0, MaxQuerySize + 1, 1), Text(MaxQuerySize + 1, 0, 1),
      Text(0, MaxXMLSize, 1), Text(0, MaxXMLSize + 1, 1), Text(0, MaxXMLSize \div 2 + 1, 2) }

JSValues == {JSNumber} \cup {JSString(t) : t \in BridgeTexts}

ArgLists ==
    {<<>>} \cup {<<a>> : a \in JSValues} \cup {<<a, b>> : a, b \in JSValues}
           \cup {<<a, a, a>> : a \in JSValues}

BridgeEngines ==
    {Engine(p, v, t) : p \in {"none"} \cup PanicSteps, v \in BOOLEAN, t \in {0, 5, 7, 8}}

InitBridge ==
    /\ ReadyPage
    /\ call = NoCall
    /\ ret = NoReturn

Gave(r, body) == [kind |-> r.kind, val |-> r.val, raised |-> body.kind = "panic"]

PageUnchanged ==
    UNCHANGED << started, webAssembly, goDefined, state, initPromise, wasmInstance,
                 initError, loads, loadPc, promise, reactions, microtasks, published,
                 callers, guestCalls, resultOutput, handlers, status, xmlInput, pathInput,
                 metrics, localStorage, historyList, search, toasts, browser, listeners,
                 attached, queryTimeout, timers, now >>

InvokeExecuteQuery ==
    /\ call = NoCall
    /\ \E args \in ArgLists, eng \in BridgeEngines :
          /\ call' = [op |-> "executeQuery", args |-> args, eng |-> eng]
          /\ ret' = Gave(executeQuery(args, eng), executeQueryBody(args, eng))
    /\ PageUnchanged

InvokeValidateXML ==
    /\ call = NoCall
    /\ \E args \in ArgLists, eng \in BridgeEngines :
          /\ call' = [op |-> "validateXML", args |-> args, eng |-> eng]
          /\ ret' = Gave(validateXML(args, eng), validateXMLBody(args, eng))
    /\ PageUnchanged

InvokeGetVersion ==
    /\ call = NoCall
    /\ \E args \in ArgLists, eng \in BridgeEngines :
          /\ call' = [op |-> "getVersion", args |-> args, eng |-> eng]
          /\ ret' = Gave(getVersion(args), getVersion(args))
    /\ PageUnchanged

NextBridge == InvokeExecuteQuery \/ InvokeValidateXML \/ InvokeGetVersion

SpecBridge == InitBridge /\ [][NextBridge]_vars

\* C9: a panic at any step of executeQuery is turned into the Failure
\* "Query execution failed due to resource limits or invalid input":
\* executeQuery always returns, and no piece of an error message it
\* returns is the value of the panic
PanicBecomesFailure ==
    call.op = "executeQuery"
    => /\ ret.kind = "return"
       /\ ret.raised =>
              ret.val = [error |-> <<"Query execution failed due to resource limits or invalid input">>]
       /\ "error" \in DOMAIN ret.val =>
              \A i \in 1 .. Len(ret.val.error) : ret.val.error[i] # call.eng.panicValue

\* xmldot.Get panicked under a call with a document and a path
PanicBecomesFailureWitness ==
    /\ call.op = "executeQuery"
    /\ call.eng.panicAt = "Get"
    /\ ret.raised
    /\ ret.kind = "return"

\* C10: validateXML always returns a boolean: false for a wrong number of
\* arguments, an argument that is not a string, a document of more than
\* 10 MiB and a panic under it, true only when xmldot.Valid says so
ValidateNeverFails ==
    call.op = "validateXML"
    => /\ ret.kind = "return"
       /\ ret.val \in BOOLEAN
       /\ (\/ Len(call.args) # 1
           \/ call.args[1].type # "string"
           \/ ByteLen(call.args[1].text) > 10485760
           \/ ret.raised) => ret.val = FALSE
       /\ ret.val = TRUE => (call.eng.valid /\ ~ret.raised)
       /\ (Len(call.args) = 1 /\ call.args[1].type = "string"
           /\ ByteLen(call.args[1].text) <= 10485760
           /\ call.eng.panicAt = "none") => ret.val = call.eng.valid

\* xmldot.Valid panicked under a call with a document of exactly 10 MiB
ValidateNeverFailsWitness ==
    /\ call.op = "validateXML"
    /\ call.eng.panicAt = "Valid"
    /\ Len(call.args) = 1 /\ call.args[1].type = "string"
    /\ ByteLen(call.args[1].text) = 10485760
    /\ ret.raised
    /\ ret.val = FALSE

-----------------------------------------------------------------------------
(* The orchestrator on its own: the page is loaded and READY, with any     *)
(* history in the store and any browser, and runQuery is called with       *)
(* documents and paths around the size limits.                             *)

\* documents: empty, blank, short, the first example, and texts around
\* 10 MiB counted in characters and in bytes
DocTexts ==
    { EmptyText, Text(2, 0, 1), Text(1, 2, 1), DefaultXML,
      Text(0, MAX_XML_SIZE, 1), Text(0, MAX_XML_SIZE + 1, 1),
      Text(0, MAX_XML_SIZE \div 2, 2), Text(0, MAX_XML_SIZE \div 2 + 1, 2) }

\* paths: empty, blank, short, and texts around the limits of 1000
\* characters and of 4 KiB counted in characters and in bytes
PathTexts ==
    { EmptyText, Text(1, 0, 1), Text(1, 1, 1), Text(0, 1000, 1), Text(0, 1001, 1),
      Text(0, MAX_PATH_SIZE, 1), Text(0, MAX_PATH_SIZE + 1, 1),
      Text(0, MAX_PATH_SIZE \div 2 + 1, 2) }

QueryEngines == {Engine("none", TRUE, 5), Engine("Get", TRUE, 5)}

Browsers == {Browser(s, r) : s, r \in BOOLEAN}

\* the history a query finds in the store: none, a text that is not JSON,
\* a JSON object, or two paths of an earlier session
QueryStores ==
    { NoItem, NotJSON, JSONStringify(JSONObject),
      JSONStringify(JSONArray(<<JSString(Text(0, 1, 1)), JSString(Text(0, 3, 1))>>)) }

InitQuery ==
    /\ ReadyManager
    /\ resultOutput = Cleared
    /\ xmlInput = EmptyText
    /\ pathInput = EmptyText
    /\ metrics = MetricsHidden
    /\ localStorage \in QueryStores
    /\ historyList = LET r == storedHistory(localStorage)
                     IN  IF r.kind = "throw" THEN <<>> ELSE Shown(r.val)
    /\ search = NoSearch
    /\ toasts = {}
    /\ browser \in Browsers
    /\ listeners = PageHandlers.listeners
    /\ attached = PageHandlers.attached
    /\ queryTimeout = 0
    /\ timers = <<>>
    /\ now = 0
    /\ call = NoCall
    /\ ret = NoReturn

NextQuery ==
    \/ \E x \in DocTexts, p \in PathTexts : RunQuery(1, x, p)
    \/ \E x \in QueryTexts, p \in QueryTexts : RunQuery(2, x, p)
    \/ \E eng \in QueryEngines : RunQueryResumes(eng)

SpecQuery == InitQuery /\ [][NextQuery]_vars

\* runQuery call c has ended after a completed ensureReady()
Ran(c) ==
    /\ callers[c].kind = "runQuery"
    /\ callers[c].pc = "done"
    /\ callers[c].resumed = 1

\* runQuery call c has called the guest
CalledGuest(c) == \E g \in guestCalls : g.by = c

\* the first query alone has run
FirstQueryAlone == Ran(1) /\ callers[2].pc = "idle"

\* C11: in runQuery a document of exactly 10,485,760 bytes reaches the
\* guest call, a document of more than 10,485,760 bytes is rejected with
\* the document-too-large error before any guest call, and so is a path of
\* more than 4096 bytes
SizeLimitsInBytes ==
    FirstQueryAlone =>
        /\ ByteLen(callers[1].xml) > 10485760
               => /\ ~CalledGuest(1)
                  /\ resultOutput.className = "result-error"
                  /\ Head(resultOutput.value) = "Error: XML document too large ("
        /\ (ByteLen(callers[1].xml) <= 10485760 /\ ByteLen(callers[1].path) > 4096)
               => /\ ~CalledGuest(1)
                  /\ resultOutput.className = "result-error"
        /\ (ByteLen(callers[1].xml) = 10485760 /\ ByteLen(callers[1].path) <= 4096)
               => CalledGuest(1)

\* runQuery is called on path c in this step
RunQueryCalled(c) == callers[c].pc = "idle" /\ callers'[c].kind = "runQuery"

\* C12: when the trimmed document or the trimmed path is empty, runQuery
\* clears the result area and the metrics and returns at once: it does not
\* call ensureReady(), queues nothing, calls no guest function, and leaves
\* the stored history, the history list and the page URL as they were
EmptyInputShortCircuits ==
    [][\A c \in Clients :
           (RunQueryCalled(c) /\ (Length(Trim(xmlInput')) = 0 \/ Length(Trim(pathInput')) = 0))
           => /\ resultOutput' = Cleared
              /\ metrics' = MetricsHidden
              /\ callers'[c].pc = "done"
              /\ callers'[c].called = {}
              /\ microtasks' = microtasks
              /\ guestCalls' = guestCalls
              /\ localStorage' = localStorage
              /\ historyList' = historyList
              /\ search' = search]_vars

\* after a first query has shown a result and has been recorded, a second
\* runQuery found the path field empty and cleared the result
EmptyInputShortCircuitsWitness ==
    /\ Ran(1) /\ CalledGuest(1)
    /\ localStorage.kind = "text" /\ Len(localStorage.json.items) = 3
    /\ search # NoSearch
    /\ callers[2].kind = "runQuery" /\ callers[2].pc = "done"
    /\ Length(callers[2].xml) # 0 /\ Length(callers[2].path) = 0
    /\ callers[2].called = {}
    /\ ~CalledGuest(2)
    /\ resultOutput = Cleared /\ metrics = MetricsHidden

\* the first entry of the stored history is the path
HeadOfHistory(raw, path) ==
    /\ raw.kind = "text"
    /\ raw.json.type = "array"
    /\ raw.json.items # <<>>
    /\ Head(raw.json.items) = JSString(path)

\* C13 as stated: after a query that ends in Success the executed path is
\* the first entry of the stored history and the URL carries the executed
\* document and path
SuccessRecordsAndShares ==
    (FirstQueryAlone /\ resultOutput.className = "result-success")
    => /\ HeadOfHistory(localStorage, callers[1].path)
       /\ ParseParams(search) = [xml |-> Present(callers[1].xml),
                                 path |-> Present(callers[1].path)]

\* runQuery call c ends in Success in this step
Succeeds(c) ==
    /\ callers[c].kind = "runQuery"
    /\ callers[c].pc = "waiting"
    /\ callers'[c].pc = "done"
    /\ resultOutput'.className = "result-success"

\* C13, amended: a query that ends in Success leaves its path as the first
\* entry of the stored history when the path has at most 1000 characters,
\* the store holds nothing or a JSON text, and the browser accepts the
\* write; and when the browser accepts the new URL, the URL carries the
\* path, and the document unless it is the first built-in example
SuccessRecordsAndSharesIfAccepted ==
    [][\A c \in Clients :
           Succeeds(c)
           => /\ (/\ Length(callers[c].path) <= 1000
                  /\ localStorage.kind # "garbage"
                  /\ browser.setItem)
                 => HeadOfHistory(localStorage', callers[c].path)
              /\ browser.replaceState
                 => ParseParams(search') =
                        [xml |-> IF callers[c].xml = DefaultXML THEN Absent
                                 ELSE Present(callers[c].xml),
                         path |-> Present(callers[c].path)]]_vars

\* a query with a path of 1000 characters has ended in Success, its path
\* stands before the two of the earlier session, and the URL carries it
SuccessRecordsAndSharesIfAcceptedWitness ==
    /\ FirstQueryAlone
    /\ resultOutput.className = "result-success"
    /\ Length(callers[1].path) = 1000
    /\ HeadOfHistory(localStorage, callers[1].path)
    /\ Len(localStorage.json.items) = 3
    /\ search.path.has /\ search.xml.has

-----------------------------------------------------------------------------
(* The query history on its own: on a READY page paths are recorded, the   *)
(* history is shown again and cleared. call holds the last operation and   *)
(* ret how it ended and the store it found.                                *)

\* the number of short paths, told apart by their length
NPaths == 6

\* paths a query can record: short ones and one of 1000 characters
HistoryPaths == {Text(0, k, 1) : k \in 1 .. NPaths} \cup {Text(0, 1000, 1)}

\* arguments of saveToHistory: null, a number, the empty string, a path of
\* 1001 characters, and the paths above
HistoryValues ==
    {JSNull, JSNumber, JSString(EmptyText), JSString(Text(0, 1001, 1))}
        \cup {JSString(t) : t \in HistoryPaths}

HistoryCall(op, args) == [op |-> op, args |-> args, eng |-> NoCall.eng]

HistoryReturn(over, before) ==
    [kind |-> IF over THEN "throw" ELSE "return", val |-> <<>>, raised |-> over,
     before |-> before]

InitHistory ==
    /\ ReadyPage
    /\ call = NoCall
    /\ ret = NoReturn

SaveToHistory(v) ==
    \E saved \in {saveToHistory(World, v)} :
        /\ CommitPage(saved.w)
        /\ call' = HistoryCall("saveToHistory", <<v>>)
        /\ ret' = HistoryReturn(saved.over, localStorage)

LoadHistory ==
    /\ CommitPage(loadHistory(World))
    /\ call' = HistoryCall("loadHistory", <<>>)
    /\ ret' = HistoryReturn(FALSE, localStorage)

ClearHistory ==
    /\ CommitPage(clearHistory(World))
    /\ call' = HistoryCall("clearHistory", <<>>)
    /\ ret' = HistoryReturn(FALSE, localStorage)

NextHistory ==
    \/ \E v \in HistoryValues : SaveToHistory(v)
    \/ LoadHistory
    \/ ClearHistory

SpecHistory == InitHistory /\ [][NextHistory]_vars

\* the persisted history: the entries of the stored array
Persisted(raw) ==
    IF raw.kind = "text" /\ raw.json.type = "array" THEN raw.json.items ELSE <<>>

NoDuplicates(h) == \A i, j \in 1 .. Len(h) : h[i] = h[j] => i = j

Has(h, v) == \E i \in 1 .. Len(h) : h[i] = v

Without(h, v) == SelectSeq(h, LAMBDA e : e # v)

\* the last operation recorded the path v
Recorded(v) == call.op = "saveToHistory" /\ call.args = <<v>>

\* C14: from an empty store, after path v is recorded the persisted history
\* has at most 5 entries and no duplicates and begins with v; if v was
\* present the others keep their order and the length is unchanged, if v
\* is a 6th path the oldest entry alone is evicted, and otherwise v is put
\* before the entries there were
HistoryStaysOrdered ==
    \A p \in HistoryPaths :
        Recorded(JSString(p)) =>
            LET v == JSString(p)
                before == Persisted(ret.before)
                after == Persisted(localStorage)
            IN  /\ Len(after) <= 5
                /\ NoDuplicates(after)
                /\ after # <<>> /\ Head(after) = v
                /\ Has(before, v) => after = <<v>> \o Without(before, v)
                /\ (~Has(before, v) /\ Len(before) = 5)
                       => after = <<v>> \o SubSeq(before, 1, 4)
                /\ (~Has(before, v) /\ Len(before) < 5) => after = <<v>> \o before

-----------------------------------------------------------------------------
(* The history over any store: the page has shown an empty history, the   *)
(* value now under the key was written by another page of the origin, and *)
(* the browser may refuse writes.                                         *)

ShortPath(k) == JSString(Text(0, k, 1))

\* what the store holds at first: nothing, the empty string, texts that
\* are not JSON or not an array, and arrays: empty, of two paths, with a
\* number, with an empty string, with entries of 999, 1000 and 1001
\* characters, with a repeated path, and of six paths
StoredItems ==
    { NoItem, EmptyItem, NotJSON, JSONStringify(JSONObject), JSONStringify(JSNumber) }
        \cup { JSONStringify(JSONArray(items)) : items \in
                 { <<>>,
                   <<ShortPath(1), ShortPath(2)>>,
                   <<ShortPath(1), JSNumber, ShortPath(2)>>,
                   <<ShortPath(1), JSString(EmptyText)>>,
                   <<JSString(Text(0, 999, 1)), ShortPath(1)>>,
                   <<ShortPath(1), JSString(Text(0, 1000, 1))>>,
                   <<JSString(Text(0, 1001, 1)), ShortPath(1)>>,
                   <<ShortPath(1), ShortPath(1), ShortPath(2)>>,
                   <<ShortPath(1), ShortPath(2), ShortPath(3), ShortPath(4), ShortPath(5),
                     ShortPath(6)>> } }

\* arguments of saveToHistory: null, a number, the empty string, two short
\* paths and paths of 999, 1000 and 1001 characters
StoreValues ==
    { JSNull, JSNumber, JSString(EmptyText), ShortPath(1), ShortPath(2),
      JSString(Text(0, 999, 1)), JSString(Text(0, 1000, 1)), JSString(Text(0, 1001, 1)) }

StoreBrowsers == {Browser(s, TRUE) : s \in BOOLEAN}

InitStore ==
    /\ ReadyManager
    /\ resultOutput = Cleared
    /\ xmlInput = EmptyText
    /\ pathInput = EmptyText
    /\ metrics = MetricsHidden
    /\ localStorage \in StoredItems
    /\ historyList = <<>>
    /\ search = NoSearch
    /\ toasts = {}
    /\ browser \in StoreBrowsers
    /\ listeners = PageHandlers.listeners
    /\ attached = PageHandlers.attached
    /\ queryTimeout = 0
    /\ timers = <<>>
    /\ now = 0
    /\ call = NoCall
    /\ ret = NoReturn

NextStore ==
    \/ \E v \in StoreValues : SaveToHistory(v)
    \/ LoadHistory
    \/ ClearHistory

SpecStore == InitStore /\ [][NextStore]_vars

\* saveToHistory takes the value as a path
ValidPath(v) == v.type = "string" /\ Length(v.text) >= 1 /\ Length(v.text) <= 1000

WellFormedHistory(raw) ==
    /\ raw.kind = "text"
    /\ raw.json.type = "array"
    /\ \A i \in 1 .. Len(raw.json.items) :
           /\ raw.json.items[i].type = "string"
           /\ Length(raw.json.items[i].text) \in 1 .. 999

\* C16: when the persisted value is not a sequence of texts of 1 to 999
\* characters each, loadHistory shows an empty history
LoadFailsClosed ==
    (call.op = "loadHistory" /\ ~WellFormedHistory(ret.before)) => historyList = <<>>

\* C17: saveToHistory with a value that is not a text, is empty or has more
\* than 1000 characters returns normally and leaves the store as it found it
RejectedPathIsNoOp ==
    \A v \in StoreValues :
        (Recorded(v) /\ (v.type # "string" \/ Length(v.text) = 0 \/ Length(v.text) > 1000))
            => /\ localStorage = ret.before
               /\ ret.kind = "return"

\* null, and a path of 1001 characters, were given to saveToHistory while
\* the store held two paths, and it still holds them
RejectedPathIsNoOpWitness ==
    /\ \/ Recorded(JSNull)
       \/ Recorded(JSString(Text(0, 1001, 1)))
    /\ localStorage = ret.before
    /\ Len(Persisted(localStorage)) = 2
    /\ browser.setItem

-----------------------------------------------------------------------------
(* The shared state on its own: a READY page was opened with any query     *)
(* string, updateURL writes the state of a query to the URL and            *)
(* decodeStateFromURL reads the URL.                                       *)

\* documents: empty, with blanks, the first example, of two-byte
\* characters, and around the limit of 10,485,760
URLDocs ==
    { EmptyText, Text(1, 2, 1), DefaultXML, Text(0, 3, 2),
      Text(0, 10485760, 1), Text(0, 10485761, 1) }

\* paths: empty, short, with a blank and two-byte characters, and around
\* the limit of 4096
URLPaths ==
    { EmptyText, Text(0, 1, 1), Text(1, 1, 2), Text(0, 4096, 1), Text(0, 4097, 1) }

\* the query strings a page can be opened with
SharedURLs ==
    { SerializeParams([xml |-> x, path |-> p]) :
          x \in {Absent} \cup {Present(t) : t \in URLDocs},
          p \in {Absent} \cup {Present(t) : t \in URLPaths} }

InitURL ==
    /\ ReadyManager
    /\ resultOutput = Cleared
    /\ xmlInput = EmptyText
    /\ pathInput = EmptyText
    /\ metrics = MetricsHidden
    /\ localStorage = NoItem
    /\ historyList = <<>>
    /\ search \in SharedURLs
    /\ toasts = {}
    /\ browser = Browser(TRUE, TRUE)
    /\ listeners = PageHandlers.listeners
    /\ attached = PageHandlers.attached
    /\ queryTimeout = 0
    /\ timers = <<>>
    /\ now = 0
    /\ call = NoCall
    /\ ret = NoReturn

UpdateURL(x, p) ==
    /\ CommitPage(updateURL(World, x, p))
    /\ call' = HistoryCall("updateURL", <<x, p>>)
    /\ ret' = [kind |-> "return", val |-> <<>>, raised |-> FALSE]

DecodeStateFromURL ==
    /\ call' = HistoryCall("decodeStateFromURL", <<>>)
    /\ ret' = [kind |-> "return", val |-> decodeStateFromURL(search), raised |-> FALSE]
    /\ PageUnchanged

NextURL ==
    \/ \E x \in URLDocs, p \in URLPaths : UpdateURL(x, p)
    \/ DecodeStateFromURL

SpecURL == InitURL /\ [][NextURL]_vars

OversizedFieldAloneIsAbsent ==
    call.op = "decodeStateFromURL" =>
        LET params == ParseParams(search)
        IN  /\ ret.val.xml = IF params.xml.has /\ Length(params.xml.text) > 10485760
                             THEN Absent ELSE params.xml
            /\ ret.val.path = IF params.path.has /\ Length(params.path.text) > 4096
                              THEN Absent ELSE params.path

-----------------------------------------------------------------------------
(* The shared link on its own: the page was opened with any query string,  *)
(* the module is READY and loadWASM is about to call initializePlayground  *)
(* (line 203) over any stored history; the query of the link then runs to *)
(* its end. call holds the engine under initializePlayground and ret the  *)
(* query string it found.                                                 *)

\* the query strings of a link: documents with blanks, the first example,
\* of more than 10 MiB in bytes but not in characters, and of more than
\* 10,485,760 characters; paths short and of more than 4096 characters
SharedLinks ==
    { SerializeParams([xml |-> x, path |-> p]) :
          x \in { Absent, Present(Text(1, 2, 1)), Present(DefaultXML),
                  Present(Text(0, MaxXMLSize \div 2 + 1, 2)),
                  Present(Text(0, 10485761, 1)) },
          p \in { Absent, Present(Text(0, 1, 1)), Present(Text(0, 4097, 1)) } }

\* engines: one that finds the document valid, one that does not, one that
\* panics in validateXML and one that panics in executeQuery
SharedEngines ==
    { Engine("none", TRUE, 5), Engine("none", FALSE, 5), Engine("Valid", TRUE, 5),
      Engine("Get", TRUE, 5) }

InitShared ==
    /\ started = TRUE /\ webAssembly = TRUE /\ goDefined = TRUE
    /\ state = "READY" /\ initPromise = 1 /\ wasmInstance = 1 /\ initError = NoOutcome
    /\ loads = 1
    /\ loadPc = [i \in LoadIds |-> IF i = 1 THEN "done" ELSE "unused"]
    /\ promise = [i \in LoadIds |-> IF i = 1 THEN Fulfilled ELSE NoOutcome]
    /\ reactions = [i \in LoadIds |-> <<>>]
    /\ microtasks = <<>>
    /\ published = GuestOps
    /\ callers = [c \in Paths |->
                    IF c = LoadWASMPath
                    THEN [IdleCaller EXCEPT !.kind = "loadWASM", !.pc = "done",
                                            !.at = "UNINITIALIZED", !.out = Fulfilled,
                                            !.seen = "READY", !.resumed = 1,
                                            !.called = {"initialize"},
                                            !.passed = {"initialize"}]
                    ELSE IdleCaller]
    /\ guestCalls = {}
    /\ handlers = FALSE
    /\ status = "success"
    /\ resultOutput = Cleared
    /\ xmlInput = EmptyText
    /\ pathInput = EmptyText
    /\ metrics = MetricsHidden
    /\ localStorage \in QueryStores
    /\ historyList = <<>>
    /\ search \in SharedLinks
    /\ toasts = {}
    /\ browser = Browser(TRUE, TRUE)
    /\ listeners = <<>>
    /\ attached = {}
    /\ queryTimeout = 0
    /\ timers = <<>>
    /\ now = 0
    /\ call = NoCall
    /\ ret = NoReturn

\* loadWASM from line 203 on
InitializePlayground(eng) ==
    \E i \in {initializePlayground(World, eng)} :
        /\ CommitPage(IF i.over THEN [i.w EXCEPT !.status = "error"] ELSE i.w)
        /\ call' = [op |-> "initializePlayground", args |-> <<>>, eng |-> eng]
        /\ ret' = HistoryReturn(i.over, search)

NextShared ==
    \/ /\ call = NoCall
       /\ \E eng \in SharedEngines : InitializePlayground(eng)
    \/ \E eng \in SharedEngines : RunQueryResumes(eng)

SpecShared == InitShared /\ [][NextShared]_vars

\* C20: when the link carries a document, the document field holds it only
\* after validateXML was called; and when validateXML gives false for it,
\* the notice "Shared XML is invalid" is shown, the document and path
\* fields are as they were, and no query is run
SharedDocumentIsValidatedFirst ==
    call.op = "initializePlayground" =>
        LET url == decodeStateFromURL(ret.before)
            validated == \E g \in guestCalls : g.op = "validateXML" /\ g.by = LoadWASMPath
        IN  Length(url.xml.text) # 0 =>
                /\ validated
                /\ xmlInput # EmptyText => xmlInput = url.xml.text
                /\ (\/ "validateXML" \notin published
                    \/ validateXML(<<JSString(url.xml.text)>>, call.eng).val = FALSE)
                       => /\ "Shared XML is invalid" \in toasts
                          /\ xmlInput = EmptyText
                          /\ pathInput = EmptyText
                          /\ callers[URLQueryPath].pc = "idle"
                          /\ microtasks = <<>>
                          /\ \A g \in guestCalls : g.op # "executeQuery"

\* a link with a document and a path was opened, validateXML gave false,
\* the notice is shown and both fields are empty
SharedDocumentIsValidatedFirstWitness ==
    /\ call.op = "initializePlayground"
    /\ call.eng = Engine("none", FALSE, 5)
    /\ ret.before = SerializeParams([xml |-> Present(Text(1, 2, 1)),
                                     path |-> Present(Text(0, 1, 1))])
    /\ "Shared XML is invalid" \in toasts
    /\ xmlInput = EmptyText /\ pathInput = EmptyText
    /\ callers[URLQueryPath].pc = "idle"
    /\ handlers = TRUE

-----------------------------------------------------------------------------
(* The history shown, over any store and after a record *)

\* C29: whatever the store holds, the history loadHistory shows has at
\* most 5 entries and no entry twice
LoadedHistoryIsBounded ==
    call.op = "loadHistory" =>
        /\ Len(historyList) <= 5
        /\ NoDuplicates(historyList)

\* C30: after saveToHistory has taken a path, from an empty store and with
\* a browser that accepts the write, the next loadHistory shows that path
\* as the first entry
RecordedPathIsLoaded ==
    \A v \in HistoryValues :
        (Recorded(v) /\ ValidPath(v)) =>
            LET shown == loadHistory(World).historyList
            IN  shown # <<>> /\ Head(shown) = v.text

-----------------------------------------------------------------------------
(* The size checks of the host and of the guest *)

\* C28: a document and a path that pass the size checks of runQuery pass
\* those of the guest: when runQuery has called the guest, the texts it
\* passed are within MaxXMLSize and MaxQuerySize bytes and the result shown
\* is not the guest's "too large" failure
ClientCheckMirrorsGuest ==
    (FirstQueryAlone /\ CalledGuest(1)) =>
        /\ ByteLen(callers[1].xml) <= MaxXMLSize
        /\ ByteLen(callers[1].path) <= MaxQuerySize
        /\ resultOutput.className = "result-error"
               => ~Includes(resultOutput.value, "too large")

-----------------------------------------------------------------------------
(* What executeQuery answers *)

\* the engine was entered under the call: xmldot.Get panics there when the
\* engine is one that panics in it
EngineEntered == call.eng.panicAt = "Get" /\ ret.raised

\* C26: executeQuery returns a Failure, and does not enter xmldot.Get, when
\* it has not exactly two strings, when the document has more than 10 MiB,
\* when the path has more than 4 KiB, and when the trimmed path is empty;
\* the sizes are those before trimming, so a path of more than 4096 blanks
\* is too large, not empty. A result has the key error alone, or the keys
\* value, raw, exists, type and index
EvaluateChecksItsArguments ==
    call.op = "executeQuery" =>
        LET a == call.args
            twoTexts == Len(a) = 2 /\ a[1].type = "string" /\ a[2].type = "string"
            failure == DOMAIN ret.val = {"error"}
            said == ret.val.error
        IN  /\ ret.kind = "return"
            /\ failure \/ DOMAIN ret.val = {"value", "raw", "exists", "type", "index"}
            /\ ~twoTexts
                   => /\ failure /\ ~EngineEntered
                      /\ ~ret.raised =>
                             said \in { <<"Expected 2 arguments: xml and path">>,
                                        <<"First argument (xml) must be a string">>,
                                        <<"Second argument (path) must be a string">> }
            /\ (twoTexts /\ ByteLen(a[1].text) > 10 * 1024 * 1024)
                   => /\ failure /\ ~EngineEntered
                      /\ ~ret.raised => Head(said) = "XML too large ("
            /\ (twoTexts /\ ByteLen(a[1].text) <= 10 * 1024 * 1024
                         /\ ByteLen(a[2].text) > 4096)
                   => /\ failure /\ ~EngineEntered
                      /\ ~ret.raised => Head(said) = "Query too large ("
            /\ (twoTexts /\ ByteLen(a[1].text) <= 10 * 1024 * 1024
                         /\ ByteLen(a[2].text) <= 4096
                         /\ Length(Trim(a[2].text)) = 0)
                   => /\ failure /\ ~EngineEntered
                      /\ ~ret.raised => said = <<"Query path cannot be empty">>

\* executeQuery was given a path of 4097 blanks under an engine that
\* panics in xmldot.Get, and answered that the query is too large
EvaluateChecksItsArgumentsWitness ==
    /\ call.op = "executeQuery"
    /\ Len(call.args) = 2
    /\ call.args[1] = JSString(Text(0, 1, 1))
    /\ call.args[2] = JSString(Text(MaxQuerySize + 1, 0, 1))
    /\ call.eng.panicAt = "Get"
    /\ ~ret.raised
    /\ Head(ret.val.error) = "Query too large ("

-----------------------------------------------------------------------------
(* The kinds of results: executeQuery is called with a document and a path *)
(* within the limits, and the engine finds a result of any type.           *)

\* the largest type tag an engine gives; xmldot.Array is 7
MaxTag == 11

KindTexts == {Text(0, 1, 1), Text(1, 2, 1), Text(0, 3, 2)}

KindEngines == {Engine("none", TRUE, t) : t \in 0 .. MaxTag}

InvokeWithType ==
    /\ call = NoCall
    /\ \E xml \in KindTexts, path \in KindTexts, eng \in KindEngines :
          LET args == <<JSString(xml), JSString(path)>>
          IN  /\ call' = [op |-> "executeQuery", args |-> args, eng |-> eng]
              /\ ret' = Gave(executeQuery(args, eng), executeQueryBody(args, eng))
    /\ PageUnchanged

NextKinds == InvokeWithType

SpecKinds == InitBridge /\ [][NextKinds]_vars

KindNames ==
    <<"Null", "String", "Number", "True", "False", "Element", "Attribute", "Array">>

\* C27: the type of a Success is one of the nine names: the name of its
\* own for each of the eight types xmldot defines, and Unknown for every
\* other tag
KindIsOneOfNine ==
    (call.op = "executeQuery" /\ "type" \in DOMAIN ret.val) =>
        /\ ret.val.type \in {KindNames[i] : i \in 1 .. 8} \cup {"Unknown"}
        /\ call.eng.tag \in 0 .. 7 => ret.val.type = KindNames[call.eng.tag + 1]
        /\ call.eng.tag \notin 0 .. 7 => ret.val.type = "Unknown"

\* the engine found a result with a tag xmldot does not define, and the
\* Success says Unknown
KindIsOneOfNineWitness ==
    /\ call.op = "executeQuery"
    /\ call.eng.tag = 9
    /\ "type" \in DOMAIN ret.val
    /\ ret.val.type = "Unknown"

-----------------------------------------------------------------------------
(* Faults of the guest under a query: the page is READY and the guest may  *)
(* panic in the engine or have exited when runQuery calls it.              *)

FaultEngines ==
    {Engine("none", TRUE, 5), Engine("Get", TRUE, 5), Engine("exit", TRUE, 5)}

NextFault ==
    \/ \E x \in DocTexts, p \in PathTexts : RunQuery(1, x, p)
    \/ \E x \in QueryTexts, p \in QueryTexts : RunQuery(2, x, p)
    \/ \E eng \in FaultEngines : RunQueryResumes(eng)

SpecFault == InitBridge /\ [][NextFault]_vars

\* the messages makeError is called with, by their first piece
FailureMessages ==
    { "Expected 2 arguments: xml and path", "First argument (xml) must be a string",
      "Second argument (path) must be a string", "XML too large (", "Query too large (",
      "Query path cannot be empty",
      "Query execution failed due to resource limits or invalid input" }

\* C25: when runQuery has called the guest and shows an error, the error
\* is "Error: " followed by a Failure message of the guest
GuestFaultIsTyped ==
    (FirstQueryAlone /\ CalledGuest(1) /\ resultOutput.className = "result-error") =>
        /\ Len(resultOutput.value) >= 2
        /\ resultOutput.value[1] = "Error: "
        /\ resultOutput.value[2] \in FailureMessages

-----------------------------------------------------------------------------
(* The Listener Registry on its own: calls of add, remove and cleanup on   *)
(* the page after initialization.                                          *)

Window == Target("window", <<>>, "element")

\* an object with addEventListener whose removeEventListener throws
Probe == Target("probe", <<"probe">>, "broken")

\* an object without addEventListener
Plain == Target("plain", <<"plain">>, "plain")

RegistryTargets == {Document, Window, Probe, Plain, NullTarget}
RegistryEvents == {<<"keydown">>, <<"resize">>}
RegistryHandlers == {"onResize"}

\* what the registry tracks and what is attached
Registry == [listeners |-> listeners, attached |-> attached]

RegistryReturn(over, before) ==
    [kind |-> IF over THEN "throw" ELSE "return", val |-> <<>>, raised |-> over,
     before |-> before]

RegistryAdd(element, event, handler) ==
    LET r == add(World, element, event, handler)
    IN  /\ CommitPage(r.w)
        /\ call' = HistoryCall("add", <<element, event, handler>>)
        /\ ret' = RegistryReturn(r.over, Registry)

RegistryRemove(element, event) ==
    LET r == remove(World, element, event)
    IN  /\ CommitPage(r.w)
        /\ call' = HistoryCall("remove", <<element, event>>)
        /\ ret' = RegistryReturn(r.over, Registry)

RegistryCleanup ==
    LET r == cleanup(World)
    IN  /\ CommitPage(r.w)
        /\ call' = HistoryCall("cleanup", <<>>)
        /\ ret' = RegistryReturn(r.over, Registry)

NextRegistry ==
    \/ \E element \in RegistryTargets, event \in RegistryEvents, handler \in RegistryHandlers :
           RegistryAdd(element, event, handler)
    \/ \E element \in RegistryTargets, event \in RegistryEvents : RegistryRemove(element, event)
    \/ RegistryCleanup

SpecRegistry == InitBridge /\ [][NextRegistry]_vars

\* the handlers attached to a target for an event
HandlersOn(slots, element, event) ==
    {s.handler : s \in {t \in slots : t.node = element.node /\ t.event = event}}

\* the registry tracks a handler for the target and the event
TracksSlot(tracked, element, event) ==
    \E i \in 1 .. Len(tracked) :
        tracked[i].element.node = element.node /\ tracked[i].event = event

\* the part of the registry that belongs to other slots than the given one
OtherSlots(reg, element, event) ==
    [attached |-> {s \in reg.attached : ~(s.node = element.node /\ s.event = event)},
     listeners |-> SelectSeq(reg.listeners,
                     LAMBDA l : ~(l.element.node = element.node /\ l.event = event))]

\* C22: an add for a valid target leaves exactly the added handler attached
\* to that target for that event, and detaches or untracks no handler of
\* another target or event.
AddReplacesOnlyItsSlot ==
    (call.op = "add" /\ call.args[1].kind \in {"element", "broken"} /\ ~ret.raised) =>
        /\ HandlersOn(attached, call.args[1], call.args[2]) = {call.args[3]}
        /\ OtherSlots(Registry, call.args[1], call.args[2])
               = OtherSlots(ret.before, call.args[1], call.args[2])

\* C23: after cleanup nothing is attached and nothing is tracked; remove
\* detaches and untracks exactly its slot when the slot is tracked, and
\* changes nothing when it is not.
RemoveAndCleanupDetach ==
    /\ call.op = "cleanup" => (attached = {} /\ listeners = <<>>)
    /\ (call.op = "remove" /\ call.args[1].kind # "null") =>
           IF TracksSlot(ret.before.listeners, call.args[1], call.args[2])
           THEN /\ HandlersOn(attached, call.args[1], call.args[2]) = {}
                /\ ~TracksSlot(listeners, call.args[1], call.args[2])
                /\ OtherSlots(Registry, call.args[1], call.args[2])
                       = OtherSlots(ret.before, call.args[1], call.args[2])
           ELSE Registry = ret.before

\* C24: add, remove and cleanup never end in an exception.
RegistryNeverRaises ==
    call.op \in {"add", "remove", "cleanup"} => ~ret.raised

-----------------------------------------------------------------------------
(* Typed input: the timers of runQueryDebounced.  A timer is identified by *)
(* its position in `timers`; time is counted in milliseconds.              *)

MaxTimers == 3
MaxTicks == 6
TickLength == 250
DebounceDelay == 500

Timer(due) == [due |-> due, state |-> "pending"]

\* clearTimeout(id): no effect on an id that is not a pending timer
clearTimeout(w, id) ==
    IF id \in 1 .. Len(w.timers) /\ w.timers[id].state = "pending"
    THEN [w EXCEPT !.timers[id].state = "cleared"]
    ELSE w

\* setTimeout(runQuery, delay); the id it returns is Len(timers) afterwards
setTimeout(w, delay) == [w EXCEPT !.timers = Append(@, Timer(w.now + delay))]

\* a handler that schedules without cancelling
runQueryDebouncedKeepsTimer(w0) ==
    With(setTimeout(w0, DebounceDelay), LAMBDA w : [w EXCEPT !.queryTimeout = Len(w.timers)])

\* runQueryDebounced, lines 273-277
runQueryDebounced(w0) ==
    With(setTimeout(clearTimeout(w0, w0.queryTimeout), DebounceDelay),
         LAMBDA w : [w EXCEPT !.queryTimeout = Len(w.timers)])

XmlInput == PageElement("xml-input", <<"xml", "input">>)
PathInput == PageElement("path-input", <<"path", "input">>)

TypedTexts == {EmptyText, Text(1, 2, 1)}

FiredTimers == {i \in 1 .. Len(timers) : timers[i].state = "fired"}
PendingTimers == {i \in 1 .. Len(timers) : timers[i].state = "pending"}

\* an input event on the document field or the path field, dispatched to
\* the handler registered for it (lines 279-280)
InputEvent(element, text) ==
    /\ Idle
    /\ Len(timers) < MaxTimers
    /\ Cardinality(FiredTimers) < NCallers
    /\ now + DebounceDelay <= MaxTicks * TickLength
    /\ Slot(element, <<"input">>, "runQueryDebounced") \in attached
    /\ Commit(runQueryDebounced(
           IF element = XmlInput THEN [World EXCEPT !.xmlInput = text]
                                 ELSE [World EXCEPT !.pathInput = text]))

\* time passes; microtasks run before the next task or timer
Tick ==
    /\ Idle
    /\ now + TickLength <= MaxTicks * TickLength
    /\ now' = now + TickLength
    /\ UNCHANGED << started, webAssembly, goDefined, state, initPromise, wasmInstance,
                    initError, loads, loadPc, promise, reactions, microtasks, published,
                    callers, guestCalls, handlers, status, resultOutput, xmlInput,
                    pathInput, metrics, localStorage, historyList, search, toasts, browser,
                    listeners, attached, queryTimeout, timers, call, ret >>

\* a timer that is due runs runQuery (line 276)
DebounceFires(i) ==
    /\ Idle
    /\ i \in PendingTimers
    /\ timers[i].due <= now
    /\ \E c \in Clients :
           /\ NextClient(c)
           /\ Commit(runQuery([World EXCEPT !.timers[i].state = "fired"], c))

TypingEngine == Engine("none", TRUE, 5)

NextTyping ==
    \/ \E text \in TypedTexts : InputEvent(XmlInput, text)
    \/ \E text \in TypedTexts : InputEvent(PathInput, text)
    \/ Tick
    \/ \E i \in 1 .. MaxTimers : DebounceFires(i)
    \/ RunQueryResumes(TypingEngine)

\* time passes, due timers run and microtasks are drained
SpecTyping ==
    /\ InitBridge
    /\ [][NextTyping]_vars
    /\ WF_vars(Tick)
    /\ WF_vars(\E i \in 1 .. MaxTimers : DebounceFires(i))
    /\ WF_vars(RunQueryResumes(TypingEngine))

\* the executions of runQuery so far
Runs == {c \in Clients : callers[c].kind = "runQuery"}

AtMostOnePending == Cardinality(PendingTimers) <= 1

\* an input event that comes less than 500ms after the one before cancels
\* the execution that one scheduled
BurstRunsOnce ==
    \A i \in 1 .. Len(timers) - 1 :
        timers[i + 1].due - timers[i].due < DebounceDelay => timers[i].state = "cleared"

\* C21: at most one debounced execution is pending; within a burst of input
\* events with gaps under 500ms only the execution scheduled by the last
\* event is kept, it is due 500ms after that event, it runs the query once,
\* and it does run when no further event comes.
DebouncedOncePerBurst ==
    /\ [](AtMostOnePending /\ BurstRunsOnce /\ Cardinality(Runs) = Cardinality(FiredTimers)
          /\ (timers # <<>> => queryTimeout = Len(timers))
          /\ \A i \in FiredTimers : timers[i].due <= now)
    /\ \A i \in 1 .. MaxTimers :
           (i \in PendingTimers) ~> (i \in FiredTimers \/ Len(timers) > i)

DebouncedOncePerBurstWitness ==
    /\ Len(timers) >= 2
    /\ timers[2].due - timers[1].due < DebounceDelay
    /\ timers[1].state = "cleared"
    /\ timers[2].state = "fired"
    /\ Ran(1)
    /\ resultOutput # Cleared

-----------------------------------------------------------------------------
(* The fields of WASMManager.                                              *)

ManagerFields ==
    /\ state = "UNINITIALIZED" <=> initPromise = 0
    /\ initError # NoOutcome <=> state = "FAILED"
    /\ state = "READY" => wasmInstance # 0

\* C34: state is UNINITIALIZED exactly when initPromise is null, initError
\* is set exactly when state is FAILED, wasmInstance is set whenever state is
\* READY, and initPromise, once set, is never replaced.
ManagerFieldsAgree ==
    /\ []ManagerFields
    /\ [][initPromise # 0 => initPromise' = initPromise]_vars

ManagerFieldsAgreeWitness ==
    /\ state = "FAILED"
    /\ initError # NoOutcome
    /\ \E c \in Clients : "initialize" \in callers[c].called /\ callers[c].pc = "done"

-----------------------------------------------------------------------------
(* The page from its load on, with the user acting through the handlers    *)
(* that are attached.                                                      *)

ExecuteBtn == PageElement("execute-btn", <<"execute", "btn">>)

\* the fields hold x and p and the user clicks the execute button (line 238)
ClickExecute(c, x, p) ==
    /\ Slot(ExecuteBtn, <<"click">>, "runQuery") \in attached
    /\ RunQuery(c, x, p)

\* the fields hold x and p and the user presses Ctrl+Enter (lines 257-262)
PressCtrlEnter(c, x, p) ==
    /\ Slot(Document, <<"keydown">>, "keydownHandler") \in attached
    /\ RunQuery(c, x, p)

NextUser ==
    \/ Startup
    \/ \E c \in Clients, x \in QueryTexts, p \in QueryTexts : ClickExecute(c, x, p)
    \/ \E c \in Clients, x \in QueryTexts, p \in QueryTexts : PressCtrlEnter(c, x, p)
    \/ \E i \in LoadIds, o \in FetchOutcomes : FetchSettles(i, o)
    \/ \E i \in LoadIds, ok \in BOOLEAN : ArrayBufferSettles(i, ok)
    \/ \E i \in LoadIds, ok \in BOOLEAN, ops \in SUBSET GuestOps : InstantiateSettles(i, ok, ops)
    \/ \E i \in LoadIds : TimerFires(i)
    \/ InitializeResumes
    \/ Adopt
    \/ Settle
    \/ \E eng \in PageEngines : RunQueryResumes(eng)
    \/ \E eng \in PageEngines : LoadWASMResumes(eng)

SpecUser == Init /\ [][NextUser]_vars

\* C32: handlers are registered only in state READY, every runQuery started
\* in state READY, and while the state is not READY (the load failed, or has
\* not finished) no handler is registered and no guest operation was called.
HandlersOnlyWhenReady ==
    /\ (handlers \/ attached # {} \/ listeners # <<>>) => state = "READY"
    /\ \A c \in Paths : callers[c].kind = "runQuery" => callers[c].at = "READY"
    /\ state # "READY" => guestCalls = {}

HandlersOnlyWhenReadyWitness ==
    /\ state = "READY"
    /\ attached # {}
    /\ Ran(1)
    /\ CalledGuest(1)

-----------------------------------------------------------------------------
(* What a query leaves alone: queries, clearHistory and loadHistory on a   *)
(* page whose load succeeded or failed.                                    *)

\* the manager after a load that failed at new Go() (lines 407, 430-433)
FailedManager ==
    /\ started = TRUE /\ webAssembly = TRUE /\ goDefined = FALSE
    /\ state = "FAILED" /\ initPromise = 1 /\ wasmInstance = 0
    /\ initError = Rejected(<<"_load", 1>>, LoadErrorPrefix \o <<"Go is not defined">>)
    /\ loads = 1
    /\ loadPc = [i \in LoadIds |-> IF i = 1 THEN "done" ELSE "unused"]
    /\ promise = [i \in LoadIds |-> IF i = 1 THEN initError ELSE NoOutcome]
    /\ reactions = [i \in LoadIds |-> <<>>]
    /\ microtasks = <<>>
    /\ published = {}
    /\ callers = [c \in Paths |->
                    IF c = LoadWASMPath
                    THEN [IdleCaller EXCEPT !.kind = "loadWASM", !.pc = "done",
                                            !.at = "UNINITIALIZED", !.out = initError,
                                            !.seen = "FAILED", !.resumed = 1,
                                            !.called = {"initialize"}]
                    ELSE IdleCaller]
    /\ guestCalls = {}
    /\ handlers = FALSE
    /\ status = "error"

\* the page after a failed load: initializePlayground never ran
FailedPage ==
    /\ FailedManager
    /\ resultOutput = Cleared
    /\ xmlInput = EmptyText
    /\ pathInput = EmptyText
    /\ metrics = MetricsHidden
    /\ localStorage \in QueryStores
    /\ historyList = <<>>
    /\ search = NoSearch
    /\ toasts = {}
    /\ browser \in Browsers
    /\ listeners = <<>>
    /\ attached = {}
    /\ queryTimeout = 0
    /\ timers = <<>>
    /\ now = 0
    /\ call = NoCall
    /\ ret = NoReturn

InitFrame == InitQuery \/ FailedPage

ClearHistoryBtn == PageElement("clear-history-btn", <<"clear", "history", "btn">>)

\* the user clicks the clear button of the history (line 254)
ClickClearHistory ==
    /\ Idle
    /\ Slot(ClearHistoryBtn, <<"click">>, "clearHistory") \in attached
    /\ ClearHistory

\* the history is loaded again on a page that is ready (line 229)
Reload ==
    /\ Idle
    /\ state = "READY"
    /\ LoadHistory

NextFrame ==
    \/ \E x \in DocTexts, p \in PathTexts : RunQuery(1, x, p)
    \/ \E x \in QueryTexts, p \in QueryTexts : RunQuery(2, x, p)
    \/ \E eng \in QueryEngines : RunQueryResumes(eng)
    \/ ClickClearHistory
    \/ Reload

SpecFrame == InitFrame /\ [][NextFrame]_vars

\* a runQuery that was waiting ends in this step and shows a Success
EndsInSuccess ==
    /\ resultOutput'.className = "result-success"
    /\ \E c \in Clients : callers[c].pc = "waiting" /\ callers'[c].pc = "done"

-----------------------------------------------------------------------------
(* The order of the invocations of runQuery on the page.                   *)

\* the invocations of runQuery so far; the one of a shared link (line 973)
\* is made by initializePlayground, before any handler is registered
Queries == {c \in Paths : callers[c].kind = "runQuery"}

StartedBefore(c, d) == c # d /\ (c = URLQueryPath \/ (d # URLQueryPath /\ c < d))

LastStarted(c) == c \in Queries /\ \A d \in Queries \ {c} : StartedBefore(d, c)

AllFinished == microtasks = <<>> /\ Queries # {} /\ \A c \in Queries : callers[c].pc = "done"

FinishInOrder ==
    \A c, d \in Queries : (StartedBefore(c, d) /\ callers[d].pc = "done") => callers[c].pc = "done"

\* the persisted history begins with the path and the URL holds the
\* document and the path
RecordedAs(store, url, xml, path) ==
    /\ Persisted(store) # <<>>
    /\ Head(Persisted(store)) = JSString(path)
    /\ url = encodeStateToURL(xml, path)

\* C33 as stated: invocations finish in the order they started, and after
\* all have finished the persisted history and the URL are those of the
\* invocation that started last, when that one evaluated its document and
\* path.
LastStartedIsRecorded ==
    /\ FinishInOrder
    /\ AllFinished =>
           \A c \in Queries :
               (LastStarted(c) /\ CalledGuest(c)) =>
                   RecordedAs(localStorage, search, callers[c].xml, callers[c].path)

\* C33: invocations finish in the order they started; the result area is
\* written only by the invocation that started last; and an invocation that
\* ends in Success leaves the document and path it read at its start in the
\* URL and at the head of the persisted history, where the history accepts
\* the path and the browser the writes.
NewestResultIsKept ==
    /\ []FinishInOrder
    /\ [][resultOutput' # resultOutput =>
             \E c \in Paths : callers'[c] # callers[c] /\ LastStarted(c)']_vars
    /\ [][\A c \in Queries :
             ( /\ callers[c].pc = "waiting" /\ callers'[c].pc = "done"
               /\ resultOutput'.className = "result-success"
               /\ browser.setItem /\ browser.replaceState
               /\ storedHistory(localStorage).kind # "throw"
               /\ Length(callers[c].path) <= 1000 ) =>
             RecordedAs(localStorage', search', callers[c].xml, callers[c].path)]_vars

NewestResultIsKeptWitness ==
    /\ AllFinished
    /\ Ran(1) /\ Ran(2)
    /\ CalledGuest(1) /\ CalledGuest(2)
    /\ resultOutput.className = "result-error"
    /\ RecordedAs(localStorage, search, callers[1].xml, callers[1].path)

====
